---- MODULE Spec2Model ----
(***************************************************************************)
(* Model of fmriprep/workflows/bold/outputs.py and resampling.py:          *)
(*   - prepare_timing_parameters, the timing-metadata derivation, and      *)
(*   - the workflow builders, as the connection lists they hand to         *)
(*     Workflow.connect.                                                   *)
(*                                                                         *)
(* Times are integers counted in ticks of 10 microseconds (1e-5 s), so     *)
(* that sub-millisecond slice onsets, the 3-decimal rounding of StartTime  *)
(* and the tolerance of numpy.isclose are all exact integer arithmetic.    *)
(***************************************************************************)
EXTENDS Integers, Sequences, FiniteSets, TLC

VARIABLES metadata, ignore, slice_time_ref, returns, built, run

vars == <<metadata, ignore, slice_time_ref, returns, built, run>>

(***************************************************************************)
(* Bounds of the explored input domain.                                    *)
(***************************************************************************)
\* longest SliceTiming sequence
MaxLen == 3
\* slice_time_ref is k / FracDen for k \in 0..FracDen
FracDen == 2
\* number of calls of prepare_timing_parameters in one behaviour
MaxCalls == 2

(***************************************************************************)
(* Units.                                                                  *)
(***************************************************************************)
\* np.round(x, 3) keeps milliseconds: one millisecond is 100 ticks
TicksPerMilli == 10 * 10
\* coarse spacing of the sampled times: 0.5015 s, half way between two milliseconds
CoarseTicks == 501 * TicksPerMilli + 50

Abs(x) == IF x < 0 THEN -x ELSE x

\* the sampled slice onsets: 0, 10 us, 0.5015 s, 0.50151 s
SliceOnsets == {0, 1, CoarseTicks, CoarseTicks + 1}

\* the sampled repetition times: 0.5015 s, 1.003 s, 1.00301 s
RepetitionTimes == {CoarseTicks, 2 * CoarseTicks, 2 * CoarseTicks + 1}

\* the sampled values of config.workflow.ignore
IgnoreSets == {{}, {"slicetiming"}, {"fieldmaps"}}

RECURSIVE SeqsUpTo(_, _)
SeqsUpTo(S, n) ==
    IF n = 0 THEN {<<>>}
    ELSE LET shorter == SeqsUpTo(S, n - 1)
         IN  shorter \cup {Append(s, x) : s \in {t \in shorter : Len(t) = n - 1}, x \in S}

(***************************************************************************)
(* Python dictionaries: functions from a finite set of string keys.        *)
(***************************************************************************)
EmptyDict == [k \in {} |-> 0]

Has(d, k) == k \in DOMAIN d

DictSet(d, k, v) == [x \in (DOMAIN d) \cup {k} |-> IF x = k THEN v ELSE d[x]]

DictDel(d, k) == [x \in (DOMAIN d) \ {k} |-> d[x]]

(***************************************************************************)
(* sorted(slice_timing): insertion sort, ascending.                        *)
(***************************************************************************)
RECURSIVE Insert(_, _)
Insert(x, s) ==
    IF s = <<>> THEN <<x>>
    ELSE IF x <= Head(s) THEN <<x>> \o s
    ELSE <<Head(s)>> \o Insert(x, Tail(s))

RECURSIVE sorted(_)
sorted(s) == IF s = <<>> THEN <<>> ELSE Insert(Head(s), sorted(Tail(s)))

(***************************************************************************)
(* np.isclose(a, b) with numpy's defaults rtol = 1e-5, atol = 1e-8:        *)
(*     |a - b| <= atol + rtol * |b|                                        *)
(* In ticks of 1e-5 s this is |a - b| * 10^5 <= 10^2 + |b|, and for        *)
(* integers d * 10^5 <= x is d <= x \div 10^5.                             *)
(***************************************************************************)
isclose(a, b) == Abs(a - b) <= (100 + Abs(b)) \div 100000

(***************************************************************************)
(* np.round(p / q, 3) for a rational number of ticks p / q (q > 0), as a   *)
(* number of ticks: to the nearest millisecond, ties to the even one.      *)
(***************************************************************************)
\* mutant of round3: the milliseconds are truncated, not rounded
round3_floor(p, q) == (p \div (q * TicksPerMilli)) * TicksPerMilli

round3(p, q) ==
    LET u    == q * TicksPerMilli
        lo   == p \div u
        rem2 == 2 * (p - lo * u)
    IN  IF rem2 < u THEN lo * TicksPerMilli
        ELSE IF rem2 > u THEN (lo + 1) * TicksPerMilli
        ELSE IF lo % 2 = 0 THEN lo * TicksPerMilli
        ELSE (lo + 1) * TicksPerMilli

(***************************************************************************)
(* prepare_timing_parameters(metadata), reading config.workflow.ignore     *)
(* and config.workflow.slice_time_ref (k / FracDen, passed as k).          *)
(* The outcome is the returned dict, or the exception raised.              *)
(***************************************************************************)
TimingKeys == {"RepetitionTime", "VolumeTiming", "DelayTime", "AcquisitionDuration",
               "SliceTiming"}

Return(d) == [raised |-> "", value |-> d]

Raise(exc) == [raised |-> exc, value |-> EmptyDict]

\* mutant of CopyTimingKeys: VolumeTiming left out of the key tuple
CopyTimingKeys_noVolumeTiming(md) ==
    [k \in (TimingKeys \ {"VolumeTiming"}) \cap DOMAIN md |-> md[k]]

\* the dict comprehension: the five timing keys the metadata has
CopyTimingKeys(md) == [k \in TimingKeys \cap DOMAIN md |-> md[k]]

\* timing_parameters.pop("SliceTiming", []): the value popped
PopSliceTiming(tp) == IF Has(tp, "SliceTiming") THEN tp["SliceTiming"] ELSE <<>>

\* mutant of AfterPop: SliceTiming read with get, not popped
AfterPop_kept(tp) == tp

\* timing_parameters.pop("SliceTiming", []): the dict left
AfterPop(tp) == DictDel(tp, "SliceTiming")

\* mutant of HasSlices: a single onset counts as a timing
HasSlices_nonempty(slice_timing) == Len(slice_timing) > 0

\* len(slice_timing) > 1
HasSlices(slice_timing) == Len(slice_timing) > 1

\* mutant of RunStc: the skip set is not consulted
RunStc_ignoringSkip(slice_timing, ign) == HasSlices(slice_timing)

\* mutant of RunStc: a single onset is enough to correct
RunStc_nonempty(slice_timing, ign) == Len(slice_timing) > 0 /\ "slicetiming" \notin ign

\* run_stc
RunStc(slice_timing, ign) == HasSlices(slice_timing) /\ "slicetiming" \notin ign

\* mutant of AcquisitionSpan: the duration of the last slice is forgotten
AcquisitionSpan_lastOnset(st) == st[Len(st)]

\* TA = st[-1] + (st[1] - st[0])
AcquisitionSpan(st) == st[Len(st)] + (st[2] - st[1])

\* mutant of NeedsDelay: no tolerance
NeedsDelay_noTolerance(TR, TA) == TA < TR

\* not np.isclose(TR, TA) and TA < TR
NeedsDelay(TR, TA) == ~isclose(TR, TA) /\ TA < TR

\* mutant of DeriveSparse: the VolumeTiming branch is an if of its own
DeriveSparse_bothBranches(tp, TA) ==
    LET delayed == IF Has(tp, "RepetitionTime") /\ NeedsDelay(tp["RepetitionTime"], TA)
                   THEN DictSet(tp, "DelayTime", tp["RepetitionTime"] - TA)
                   ELSE tp
    IN  IF Has(tp, "VolumeTiming") THEN DictSet(delayed, "AcquisitionDuration", TA)
        ELSE delayed

\* mutant of DeriveSparse: nothing is derived when the correction is skipped
DeriveSparse_onlyWhenCorrected(tp, TA) ==
    IF ~tp["SliceTimingCorrected"] THEN tp
    ELSE IF Has(tp, "RepetitionTime")
    THEN IF NeedsDelay(tp["RepetitionTime"], TA)
         THEN DictSet(tp, "DelayTime", tp["RepetitionTime"] - TA)
         ELSE tp
    ELSE IF Has(tp, "VolumeTiming")
    THEN DictSet(tp, "AcquisitionDuration", TA)
    ELSE tp

\* the RepetitionTime / VolumeTiming branch
DeriveSparse(tp, TA) ==
    IF Has(tp, "RepetitionTime")
    THEN IF NeedsDelay(tp["RepetitionTime"], TA)
         THEN DictSet(tp, "DelayTime", tp["RepetitionTime"] - TA)
         ELSE tp
    ELSE IF Has(tp, "VolumeTiming")
    THEN DictSet(tp, "AcquisitionDuration", TA)
    ELSE tp

\* tzero = np.round(first + frac * (last - first), 3)
StartTimeOf(st, k) ==
    LET first == st[1]
        last  == st[Len(st)]
    IN  round3(first * FracDen + k * (last - first), FracDen)

prepare_timing_parameters(md, ign, k) ==
    LET copied       == CopyTimingKeys(md)
        slice_timing == PopSliceTiming(copied)
        tp0          == AfterPop(copied)
        run_stc      == RunStc(slice_timing, ign)
        tp1          == DictSet(tp0, "SliceTimingCorrected", run_stc)
    IN  IF HasSlices(slice_timing)
        THEN LET st == sorted(slice_timing)
             IN  IF Len(st) < 2
                 THEN Raise("IndexError")
                 ELSE LET TA  == AcquisitionSpan(st)
                          tp2 == DeriveSparse(tp1, TA)
                      IN  IF run_stc
                          THEN Return(DictSet(tp2, "StartTime", StartTimeOf(st, k)))
                          ELSE Return(tp2)
        ELSE Return(tp1)

(***************************************************************************)
(* What the call leaves in the objects it can reach: the mapping handed in *)
(* and the list its SliceTiming entry refers to (pop hands out that same   *)
(* list), the mapping the dict comprehension creates, and the list that    *)
(* sorted() creates.  Every pop and assignment of the function is applied  *)
(* to timing_parameters.                                                   *)
(***************************************************************************)
\* mutant of timing_parameters_object: the mapping handed in is used, not a new one
timing_parameters_object_aliased == "metadata"

\* timing_parameters = {key: metadata[key] for ...}: a new mapping
timing_parameters_object == "timing_parameters"

ObjectsAfter(md, ign, k) ==
    LET outcome      == prepare_timing_parameters(md, ign, k)
        slice_timing == PopSliceTiming(CopyTimingKeys(md))
        before       == [metadata |-> md, slice_timing |-> slice_timing]
        written      == IF outcome.raised = "" THEN outcome.value
                        ELSE DictSet(AfterPop(CopyTimingKeys(md)), "SliceTimingCorrected",
                                     RunStc(slice_timing, ign))
        dicts        == DictSet(before, timing_parameters_object, written)
    IN  IF HasSlices(slice_timing) THEN DictSet(dicts, "st", sorted(slice_timing))
        ELSE dicts

\* the mapping handed in, as the caller sees it after the call
ArgumentAfter(md, ign, k) ==
    LET objects == ObjectsAfter(md, ign, k)
    IN  IF Has(objects.metadata, "SliceTiming")
        THEN DictSet(objects.metadata, "SliceTiming", objects.slice_timing)
        ELSE objects.metadata

(***************************************************************************)
(* Input domain of the timing function.                                    *)
(***************************************************************************)
\* a VolumeTiming sequence of a sparse acquisition
SampleVolumeTiming == <<0, 2 * CoarseTicks, 4 * CoarseTicks, 10 * CoarseTicks>>

\* optional entry: the dicts with key k bound to a value of S, and the empty dict
Optional(k, S) == {EmptyDict} \cup {DictSet(EmptyDict, k, v) : v \in S}

Merge2(a, b) == [x \in (DOMAIN a) \cup (DOMAIN b) |-> IF x \in DOMAIN a THEN a[x] ELSE b[x]]

Metadatas ==
    {Merge2(Merge2(Merge2(Merge2(Merge2(a, b), c), d), e), f) :
        a \in Optional("RepetitionTime", RepetitionTimes),
        b \in Optional("VolumeTiming", {SampleVolumeTiming}),
        c \in Optional("DelayTime", {CoarseTicks}),
        d \in Optional("AcquisitionDuration", {2 * CoarseTicks}),
        e \in Optional("SliceTiming", SeqsUpTo(SliceOnsets, MaxLen)),
        f \in {DictSet(EmptyDict, "TaskName", "rest")}}

Unbuilt == [b \in {} |-> {}]

\* no workflow is being run
NoRun == [name |-> ""]

Init ==
    /\ metadata \in Metadatas
    /\ ignore \in IgnoreSets
    /\ slice_time_ref \in 0..FracDen
    /\ returns = <<>>
    /\ built = Unbuilt
    /\ run = NoRun

\* one call of prepare_timing_parameters(metadata)
Call ==
    /\ Len(returns) < MaxCalls
    /\ returns' = Append(returns, prepare_timing_parameters(metadata, ignore, slice_time_ref))
    /\ metadata' = ArgumentAfter(metadata, ignore, slice_time_ref)
    /\ UNCHANGED <<ignore, slice_time_ref, built, run>>

Next == Call

Spec == Init /\ [][Next]_vars

(***************************************************************************)
(* Workflows.  A workflow is the set of connections handed to              *)
(* Workflow.connect, each <<source node, output port, destination node,    *)
(* input port>>; nodes are named by their name= argument, and a node is in *)
(* the workflow when a connection mentions it.                             *)
(***************************************************************************)
\* (src, dst, [(out, in), ...]) of a connection list
Conn(src, dst, pairs) == {<<src, p[1], dst, p[2]>> : p \in pairs}

NodesOf(edges) == {e[1] : e \in edges} \cup {e[3] : e \in edges}

\* the nodes of a nested workflow are named "<workflow>.<node>"
Nested(wf, edges) == {<<wf \o "." \o e[1], e[2], wf \o "." \o e[3], e[4]>> : e \in edges}

(***************************************************************************)
(* init_func_fit_reports_wf(sdc_correction)                                *)
(***************************************************************************)
func_fit_reports_base ==
    Conn("inputnode", "ds_report_summary",
         {<<"source_file", "source_file">>, <<"summary_report", "in_file">>})
    \cup Conn("inputnode", "ds_report_validation",
         {<<"source_file", "source_file">>, <<"validation_report", "in_file">>})
    \cup Conn("inputnode", "t1w_boldref",
         {<<"t1w_preproc", "input_image">>, <<"coreg_boldref", "reference_image">>,
          <<"boldref2anat_xfm", "transforms">>})
    \cup Conn("inputnode", "t1w_wm", {<<"t1w_dseg", "in_seg">>})
    \cup Conn("inputnode", "boldref_wm",
         {<<"coreg_boldref", "reference_image">>, <<"boldref2anat_xfm", "transforms">>})
    \cup Conn("t1w_wm", "boldref_wm", {<<"out", "input_image">>})

func_fit_reports_sdc ==
    Conn("inputnode", "fmapref_boldref",
         {<<"fmap_ref", "input_image">>, <<"coreg_boldref", "reference_image">>,
          <<"boldref2fmap_xfm", "transforms">>})
    \cup Conn("inputnode", "sdecreg_report",
         {<<"sdc_boldref", "reference">>, <<"fieldmap", "fieldmap">>, <<"bold_mask", "mask">>})
    \cup Conn("fmapref_boldref", "sdecreg_report", {<<"output_image", "moving">>})
    \cup Conn("inputnode", "ds_sdcreg_report", {<<"source_file", "source_file">>})
    \cup Conn("sdecreg_report", "ds_sdcreg_report", {<<"out_report", "in_file">>})
    \cup Conn("inputnode", "sdc_report",
         {<<"sdc_boldref", "before">>, <<"coreg_boldref", "after">>})
    \cup Conn("boldref_wm", "sdc_report", {<<"output_image", "wm_seg">>})
    \cup Conn("inputnode", "ds_sdc_report", {<<"source_file", "source_file">>})
    \cup Conn("sdc_report", "ds_sdc_report", {<<"out_report", "in_file">>})

\* mutant of func_fit_reports_epi: epi_t1_report gets no white-matter segmentation
func_fit_reports_epi_noWm ==
    Conn("inputnode", "epi_t1_report", {<<"coreg_boldref", "after">>})
    \cup Conn("t1w_boldref", "epi_t1_report", {<<"output_image", "before">>})
    \cup Conn("inputnode", "ds_epi_t1_report", {<<"source_file", "source_file">>})
    \cup Conn("epi_t1_report", "ds_epi_t1_report", {<<"out_report", "in_file">>})

func_fit_reports_epi ==
    Conn("inputnode", "epi_t1_report", {<<"coreg_boldref", "after">>})
    \cup Conn("t1w_boldref", "epi_t1_report", {<<"output_image", "before">>})
    \cup Conn("boldref_wm", "epi_t1_report", {<<"output_image", "wm_seg">>})
    \cup Conn("inputnode", "ds_epi_t1_report", {<<"source_file", "source_file">>})
    \cup Conn("epi_t1_report", "ds_epi_t1_report", {<<"out_report", "in_file">>})

func_fit_reports_connections(sdc_correction) ==
    func_fit_reports_base
    \cup (IF sdc_correction THEN func_fit_reports_sdc ELSE {})
    \cup func_fit_reports_epi

(***************************************************************************)
(* init_ds_boldref_wf(desc), init_ds_registration_wf(source, dest) and     *)
(* init_ds_hmc_wf()                                                        *)
(***************************************************************************)
ds_boldref_connections ==
    Conn("inputnode", "raw_sources", {<<"source_files", "in_files">>})
    \cup Conn("inputnode", "ds_boldref",
              {<<"boldref", "in_file">>, <<"source_files", "source_file">>})
    \cup Conn("raw_sources", "ds_boldref", {<<"out", "RawSources">>})
    \cup Conn("ds_boldref", "outputnode", {<<"out_file", "boldref">>})

ds_registration_connections ==
    Conn("inputnode", "raw_sources", {<<"source_files", "in_files">>})
    \cup Conn("inputnode", "ds_xform",
              {<<"xform", "in_file">>, <<"source_files", "source_file">>})
    \cup Conn("raw_sources", "ds_xform", {<<"out", "RawSources">>})
    \cup Conn("ds_xform", "outputnode", {<<"out_file", "xform">>})

ds_hmc_connections ==
    Conn("inputnode", "raw_sources", {<<"source_files", "in_files">>})
    \cup Conn("inputnode", "ds_xforms",
              {<<"xforms", "in_file">>, <<"source_files", "source_file">>})
    \cup Conn("raw_sources", "ds_xforms", {<<"out", "RawSources">>})
    \cup Conn("ds_xforms", "outputnode", {<<"out_file", "xforms">>})

(***************************************************************************)
(* init_ds_bold_native_wf(multiecho, bold_output, echo_output)             *)
(***************************************************************************)
ds_bold_native_mask ==
    Conn("inputnode", "raw_sources", {<<"source_files", "in_files">>})
    \cup Conn("inputnode", "ds_bold_mask",
         {<<"source_files", "source_file">>, <<"bold_mask", "in_file">>})
    \cup Conn("raw_sources", "ds_bold_mask", {<<"out", "RawSources">>})

ds_bold_native_bold ==
    Conn("inputnode", "ds_bold", {<<"source_files", "source_file">>, <<"bold", "in_file">>})

ds_bold_native_t2star ==
    Conn("inputnode", "ds_t2star_bold",
         {<<"source_files", "source_file">>, <<"t2star", "in_file">>})
    \cup Conn("raw_sources", "ds_t2star_bold", {<<"out", "RawSources">>})

ds_bold_native_echos ==
    Conn("inputnode", "ds_bold_echos",
         {<<"source_files", "source_file">>, <<"bold_echos", "in_file">>})

\* mutant of ds_bold_native_connections: the mask sink is wired only with bold_output
ds_bold_native_connections_maskWithBold(multiecho, bold_output, echo_output) ==
    (IF bold_output THEN ds_bold_native_mask \cup ds_bold_native_bold ELSE {})
    \cup (IF bold_output /\ multiecho THEN ds_bold_native_t2star ELSE {})
    \cup (IF echo_output THEN ds_bold_native_echos ELSE {})

ds_bold_native_connections(multiecho, bold_output, echo_output) ==
    ds_bold_native_mask
    \cup (IF bold_output THEN ds_bold_native_bold ELSE {})
    \cup (IF bold_output /\ multiecho THEN ds_bold_native_t2star ELSE {})
    \cup (IF echo_output THEN ds_bold_native_echos ELSE {})

(***************************************************************************)
(* init_ds_volumes_wf(multiecho)                                           *)
(***************************************************************************)
ds_volumes_bold ==
    Conn("inputnode", "raw_sources", {<<"source_files", "in_files">>})
    \cup Conn("inputnode", "boldref2target",
         {<<"boldref2anat_xfm", "in1">>, <<"anat2std_xfm", "in2">>})
    \cup Conn("inputnode", "ds_bold",
         {<<"source_files", "source_file">>, <<"bold", "in_file">>, <<"space", "space">>,
          <<"cohort", "cohort">>, <<"resolution", "resolution">>})

ds_volumes_inputs ==
    Conn("inputnode", "resample_ref", {<<"bold_ref", "input_image">>})
    \cup Conn("inputnode", "resample_mask", {<<"bold_mask", "input_image">>})

\* the lists resamplers and datasinks, after the multiecho appends
resamplers(multiecho) ==
    <<"resample_ref", "resample_mask">> \o (IF multiecho THEN <<"resample_t2star">> ELSE <<>>)

\* mutant of datasinks: the list starts with ds_mask
datasinks_maskFirst(multiecho) ==
    <<"ds_mask", "ds_ref">> \o (IF multiecho THEN <<"ds_t2star_std">> ELSE <<>>)

datasinks(multiecho) ==
    <<"ds_ref", "ds_mask">> \o (IF multiecho THEN <<"ds_t2star_std">> ELSE <<>>)

Min2(a, b) == IF a <= b THEN a ELSE b

\* zip(a, b)
zip(a, b) == [i \in 1..Min2(Len(a), Len(b)) |-> <<a[i], b[i]>>]

Range(q) == {q[i] : i \in DOMAIN q}

ds_volumes_paired(multiecho) ==
    UNION {Conn("inputnode", r, {<<"ref_file", "reference_image">>}) :
              r \in Range(resamplers(multiecho))}
    \cup UNION {Conn("boldref2target", r, {<<"out", "transforms">>}) :
              r \in Range(resamplers(multiecho))}
    \cup UNION {Conn("inputnode", d,
                     {<<"source_files", "source_file">>, <<"space", "space">>,
                      <<"cohort", "cohort">>, <<"resolution", "resolution">>}) :
              d \in Range(datasinks(multiecho))}
    \cup UNION {Conn(rd[1], rd[2], {<<"output_image", "in_file">>}) :
              rd \in Range(zip(resamplers(multiecho), datasinks(multiecho)))}

ds_volumes_connections(multiecho) ==
    ds_volumes_bold
    \cup ds_volumes_inputs
    \cup (IF multiecho
          THEN Conn("inputnode", "resample_t2star", {<<"t2star", "input_image">>})
          ELSE {})
    \cup ds_volumes_paired(multiecho)

(***************************************************************************)
(* init_bold_surf_wf(medial_surface_nan)                                   *)
(***************************************************************************)
bold_surf_base ==
    Conn("inputnode", "get_fsnative",
         {<<"subject_id", "subject_id">>, <<"subjects_dir", "subjects_dir">>})
    \cup Conn("inputnode", "targets", {<<"subject_id", "subject_id">>})
    \cup Conn("inputnode", "itk2lta",
         {<<"bold_t1w", "moving">>, <<"fsnative2t1w_xfm", "in_xfms">>})
    \cup Conn("get_fsnative", "itk2lta", {<<"T1", "reference">>})
    \cup Conn("inputnode", "sampler",
         {<<"subjects_dir", "subjects_dir">>, <<"subject_id", "subject_id">>,
          <<"bold_t1w", "source_file">>})
    \cup Conn("itersource", "targets", {<<"target", "space">>})
    \cup Conn("itk2lta", "sampler", {<<"out_inv", "reg_file">>})
    \cup Conn("targets", "sampler", {<<"out", "target_subject">>})
    \cup Conn("inputnode", "ds_bold_surfs", {<<"source_file", "source_file">>})
    \cup Conn("itersource", "ds_bold_surfs", {<<"target", "space">>})
    \cup Conn("update_metadata", "ds_bold_surfs", {<<"out_file", "in_file">>})

\* mutant of bold_surf_medial: medial_nans is fed, and update_metadata still gets the
\* output of sampler
bold_surf_medial_unforwarded ==
    Conn("inputnode", "medial_nans", {<<"subjects_dir", "subjects_dir">>})
    \cup Conn("sampler", "medial_nans", {<<"out_file", "in_file">>})
    \cup Conn("sampler", "update_metadata", {<<"out_file", "in_file">>})

bold_surf_medial ==
    Conn("inputnode", "medial_nans", {<<"subjects_dir", "subjects_dir">>})
    \cup Conn("sampler", "medial_nans", {<<"out_file", "in_file">>})
    \cup Conn("medial_nans", "update_metadata", {<<"out_file", "in_file">>})

bold_surf_direct == Conn("sampler", "update_metadata", {<<"out_file", "in_file">>})

\* mutant of bold_surf_connections: the direct connection is made before the branch,
\* so that with medial_surface_nan both sampler and medial_nans feed update_metadata
bold_surf_connections_directFirst(medial_surface_nan) ==
    bold_surf_base \cup bold_surf_direct
    \cup (IF medial_surface_nan THEN bold_surf_medial ELSE {})

bold_surf_connections(medial_surface_nan) ==
    bold_surf_base \cup (IF medial_surface_nan THEN bold_surf_medial ELSE bold_surf_direct)

(***************************************************************************)
(* init_goodvoxels_bold_mask_wf()                                          *)
(***************************************************************************)
goodvoxels_bold_mask_covariance ==
    Conn("inputnode", "ribbon_boldsrc_xfm", {<<"anat_ribbon", "input_image">>})
    \cup Conn("inputnode", "stdev_volume", {<<"bold_file", "in_file">>})
    \cup Conn("inputnode", "mean_volume", {<<"bold_file", "in_file">>})
    \cup Conn("mean_volume", "ribbon_boldsrc_xfm", {<<"out_file", "reference_image">>})
    \cup Conn("stdev_volume", "cov_volume", {<<"out_file", "in_file">>})
    \cup Conn("mean_volume", "cov_volume", {<<"out_file", "operand_file">>})
    \cup Conn("cov_volume", "cov_ribbon", {<<"out_file", "in_file">>})
    \cup Conn("ribbon_boldsrc_xfm", "cov_ribbon", {<<"output_image", "mask_file">>})
    \cup Conn("cov_ribbon", "cov_ribbon_mean", {<<"out_file", "in_file">>})
    \cup Conn("cov_ribbon", "cov_ribbon_std", {<<"out_file", "in_file">>})
    \cup Conn("cov_ribbon", "cov_ribbon_norm", {<<"out_file", "in_file">>})
    \cup Conn("cov_ribbon_mean", "cov_ribbon_norm", {<<"out_stat", "operand_value">>})
    \cup Conn("cov_ribbon_norm", "smooth_norm", {<<"out_file", "in_file">>})
    \cup Conn("smooth_norm", "merge_smooth_norm", {<<"out_file", "in1">>})
    \cup Conn("cov_ribbon_norm", "cov_ribbon_norm_smooth", {<<"out_file", "in_file">>})
    \cup Conn("merge_smooth_norm", "cov_ribbon_norm_smooth", {<<"out", "operand_files">>})
    \cup Conn("cov_ribbon_mean", "cov_norm", {<<"out_stat", "operand_value">>})
    \cup Conn("cov_volume", "cov_norm", {<<"out_file", "in_file">>})
    \cup Conn("cov_norm", "cov_norm_modulate", {<<"out_file", "in_file">>})
    \cup Conn("cov_ribbon_norm_smooth", "cov_norm_modulate", {<<"out_file", "operand_file">>})
    \cup Conn("cov_norm_modulate", "cov_norm_modulate_ribbon", {<<"out_file", "in_file">>})
    \cup Conn("ribbon_boldsrc_xfm", "cov_norm_modulate_ribbon",
              {<<"output_image", "mask_file">>})
    \cup Conn("cov_norm_modulate_ribbon", "mod_ribbon_mean", {<<"out_file", "in_file">>})
    \cup Conn("cov_norm_modulate_ribbon", "mod_ribbon_std", {<<"out_file", "in_file">>})
    \cup Conn("mod_ribbon_mean", "merge_mod_ribbon_stats", {<<"out_stat", "in1">>})
    \cup Conn("mod_ribbon_std", "merge_mod_ribbon_stats", {<<"out_stat", "in2">>})
    \cup Conn("merge_mod_ribbon_stats", "upper_thr_val", {<<"out", "in_stats">>})
    \cup Conn("merge_mod_ribbon_stats", "lower_thr_val", {<<"out", "in_stats">>})
    \cup Conn("mean_volume", "bin_mean_volume", {<<"out_file", "in_file">>})
    \cup Conn("upper_thr_val", "goodvoxels_thr", {<<"upper_thresh", "thresh">>})
    \cup Conn("cov_norm_modulate", "goodvoxels_thr", {<<"out_file", "in_file">>})
    \cup Conn("bin_mean_volume", "merge_goodvoxels_operands", {<<"out_file", "in1">>})
    \cup Conn("goodvoxels_thr", "goodvoxels_mask", {<<"out_file", "in_file">>})
    \cup Conn("merge_goodvoxels_operands", "goodvoxels_mask", {<<"out", "operand_files">>})

\* mutant of goodvoxels_bold_mask_apply: outputnode.goodvoxels_mask is fed from
\* goodvoxels_thr
goodvoxels_bold_mask_apply_maskFromThr ==
    Conn("goodvoxels_mask", "goodvoxels_ribbon_mask", {<<"out_file", "in_file">>})
    \cup Conn("ribbon_boldsrc_xfm", "goodvoxels_ribbon_mask", {<<"output_image", "mask_file">>})
    \cup Conn("goodvoxels_thr", "outputnode", {<<"out_file", "goodvoxels_mask">>})
    \cup Conn("goodvoxels_ribbon_mask", "outputnode", {<<"out_file", "goodvoxels_ribbon">>})

goodvoxels_bold_mask_apply ==
    Conn("goodvoxels_mask", "goodvoxels_ribbon_mask", {<<"out_file", "in_file">>})
    \cup Conn("ribbon_boldsrc_xfm", "goodvoxels_ribbon_mask", {<<"output_image", "mask_file">>})
    \cup Conn("goodvoxels_mask", "outputnode", {<<"out_file", "goodvoxels_mask">>})
    \cup Conn("goodvoxels_ribbon_mask", "outputnode", {<<"out_file", "goodvoxels_ribbon">>})

\* mutant of goodvoxels_bold_mask_connections: goodvoxels_thr does not feed
\* goodvoxels_mask
goodvoxels_bold_mask_connections_unthresholded ==
    (goodvoxels_bold_mask_covariance \cup goodvoxels_bold_mask_apply)
    \ Conn("goodvoxels_thr", "goodvoxels_mask", {<<"out_file", "in_file">>})

goodvoxels_bold_mask_connections == goodvoxels_bold_mask_covariance \cup goodvoxels_bold_mask_apply

(***************************************************************************)
(* init_bold_fsLR_resampling_wf(estimate_goodvoxels)                       *)
(***************************************************************************)
\* mutant of bold_fsLR_resampling_sampling: resample_to_fsLR is fed from mask_fsLR,
\* the node it feeds, instead of mask_native
bold_fsLR_resampling_sampling_fedBack ==
    Conn("inputnode", "select_surfaces",
         {<<"white", "white">>, <<"pial", "pial">>, <<"midthickness", "midthickness">>,
          <<"midthickness_fsLR", "midthickness_fsLR">>,
          <<"sphere_reg_fsLR", "sphere_reg_fsLR">>, <<"cortex_mask", "cortex_mask">>})
    \cup Conn("hemisource", "select_surfaces", {<<"hemi", "key">>})
    \cup Conn("inputnode", "volume_to_surface", {<<"bold_file", "volume_file">>})
    \cup Conn("select_surfaces", "volume_to_surface",
         {<<"midthickness", "surface_file">>, <<"white", "inner_surface">>,
          <<"pial", "outer_surface">>})
    \cup Conn("select_surfaces", "metric_dilate", {<<"midthickness", "surf_file">>})
    \cup Conn("select_surfaces", "mask_native", {<<"cortex_mask", "mask">>})
    \cup Conn("volume_to_surface", "metric_dilate", {<<"out_file", "in_file">>})
    \cup Conn("metric_dilate", "mask_native", {<<"out_file", "in_file">>})
    \cup Conn("select_surfaces", "resample_to_fsLR",
         {<<"sphere_reg_fsLR", "current_sphere">>, <<"template_sphere", "new_sphere">>,
          <<"midthickness", "current_area">>, <<"midthickness_fsLR", "new_area">>,
          <<"cortex_mask", "roi_metric">>})
    \cup Conn("mask_fsLR", "resample_to_fsLR", {<<"out_file", "in_file">>})
    \cup Conn("select_surfaces", "mask_fsLR", {<<"template_roi", "mask">>})
    \cup Conn("resample_to_fsLR", "mask_fsLR", {<<"out_file", "in_file">>})
    \cup Conn("mask_fsLR", "joinnode", {<<"out_file", "bold_fsLR">>})
    \cup Conn("joinnode", "outputnode", {<<"bold_fsLR", "bold_fsLR">>})

bold_fsLR_resampling_sampling ==
    Conn("inputnode", "select_surfaces",
         {<<"white", "white">>, <<"pial", "pial">>, <<"midthickness", "midthickness">>,
          <<"midthickness_fsLR", "midthickness_fsLR">>,
          <<"sphere_reg_fsLR", "sphere_reg_fsLR">>, <<"cortex_mask", "cortex_mask">>})
    \cup Conn("hemisource", "select_surfaces", {<<"hemi", "key">>})
    \cup Conn("inputnode", "volume_to_surface", {<<"bold_file", "volume_file">>})
    \cup Conn("select_surfaces", "volume_to_surface",
         {<<"midthickness", "surface_file">>, <<"white", "inner_surface">>,
          <<"pial", "outer_surface">>})
    \cup Conn("select_surfaces", "metric_dilate", {<<"midthickness", "surf_file">>})
    \cup Conn("select_surfaces", "mask_native", {<<"cortex_mask", "mask">>})
    \cup Conn("volume_to_surface", "metric_dilate", {<<"out_file", "in_file">>})
    \cup Conn("metric_dilate", "mask_native", {<<"out_file", "in_file">>})
    \cup Conn("select_surfaces", "resample_to_fsLR",
         {<<"sphere_reg_fsLR", "current_sphere">>, <<"template_sphere", "new_sphere">>,
          <<"midthickness", "current_area">>, <<"midthickness_fsLR", "new_area">>,
          <<"cortex_mask", "roi_metric">>})
    \cup Conn("mask_native", "resample_to_fsLR", {<<"out_file", "in_file">>})
    \cup Conn("select_surfaces", "mask_fsLR", {<<"template_roi", "mask">>})
    \cup Conn("resample_to_fsLR", "mask_fsLR", {<<"out_file", "in_file">>})
    \cup Conn("mask_fsLR", "joinnode", {<<"out_file", "bold_fsLR">>})
    \cup Conn("joinnode", "outputnode", {<<"bold_fsLR", "bold_fsLR">>})

\* the connections to and from the nested goodvoxels_bold_mask_wf, whose ports
\* "inputnode.x" / "outputnode.x" are ports x of its inputnode / outputnode, and the
\* nested workflow itself
bold_fsLR_resampling_goodvoxels ==
    Conn("inputnode", "goodvoxels_bold_mask_wf.inputnode",
         {<<"bold_file", "bold_file">>, <<"anat_ribbon", "anat_ribbon">>})
    \cup Conn("goodvoxels_bold_mask_wf.outputnode", "volume_to_surface",
         {<<"goodvoxels_mask", "volume_roi">>})
    \cup Conn("goodvoxels_bold_mask_wf.outputnode", "outputnode",
         {<<"goodvoxels_mask", "goodvoxels_mask">>})
    \cup Nested("goodvoxels_bold_mask_wf", goodvoxels_bold_mask_connections)

\* mutant of bold_fsLR_resampling_connections: the joined list is fed back to
\* volume_to_surface
bold_fsLR_resampling_connections_joinedBack(estimate_goodvoxels) ==
    bold_fsLR_resampling_sampling
    \cup Conn("joinnode", "volume_to_surface", {<<"bold_fsLR", "volume_roi">>})
    \cup (IF estimate_goodvoxels THEN bold_fsLR_resampling_goodvoxels ELSE {})

bold_fsLR_resampling_connections(estimate_goodvoxels) ==
    bold_fsLR_resampling_sampling
    \cup (IF estimate_goodvoxels THEN bold_fsLR_resampling_goodvoxels ELSE {})

(***************************************************************************)
(* Nodes.  The static configuration of a node is a record: kind (Node,     *)
(* MapNode, JoinNode), interface, the keyword arguments of the interface   *)
(* and of the node, and the inputs assigned right after construction.      *)
(* Builder arguments that are paths are kept as their names.  Memory is    *)
(* counted in hundredths of a GB.  A workflow holds the nodes that a       *)
(* connection mentions.                                                    *)
(***************************************************************************)
\* fmriprep.config.DEFAULT_MEMORY_MIN_GB = 0.01
DEFAULT_MEMORY_MIN_GB == 1

\* mem_gb=1 and mem_gb=0.1
OneGb == 100 * DEFAULT_MEMORY_MIN_GB

TenthGb == 10 * DEFAULT_MEMORY_MIN_GB

\* the nodes of `nodes` that the connections mention
Connected(nodes, edges) == [n \in (DOMAIN nodes) \cap NodesOf(edges) |-> nodes[n]]

\* the nodes of a nested workflow, named "<workflow>.<node>"
NestedNodes(wf, nodes) ==
    [n \in {wf \o "." \o m : m \in DOMAIN nodes} |->
        nodes[CHOOSE m \in DOMAIN nodes : wf \o "." \o m = n]]

\* t2star_meta
t2star_meta ==
    [Units |-> "s", EstimationReference |-> "doi:10.1002/mrm.20900",
     EstimationAlgorithm |-> "monoexponential decay model"]

(***************************************************************************)
(* Nodes of init_func_fit_reports_wf(sdc_correction)                       *)
(***************************************************************************)
func_fit_reports_nodes_base ==
    "inputnode" :> [kind |-> "Node", interface |-> "IdentityInterface",
                    fields |-> <<"source_file", "sdc_boldref", "coreg_boldref", "bold_mask",
                                 "boldref2anat_xfm", "boldref2fmap_xfm", "t1w_preproc",
                                 "t1w_mask", "t1w_dseg", "fieldmap", "fmap_ref", "subject_id",
                                 "subjects_dir", "summary_report", "validation_report">>]
    @@ "ds_report_summary" :>
          [kind |-> "Node", interface |-> "DerivativesDataSink",
           base_directory |-> "output_dir", desc |-> "summary", datatype |-> "figures",
           dismiss_entities |-> <<"echo">>, run_without_submitting |-> TRUE,
           mem_gb |-> DEFAULT_MEMORY_MIN_GB]
    @@ "ds_report_validation" :>
          [kind |-> "Node", interface |-> "DerivativesDataSink",
           base_directory |-> "output_dir", desc |-> "validation", datatype |-> "figures",
           dismiss_entities |-> <<"echo">>, run_without_submitting |-> TRUE,
           mem_gb |-> DEFAULT_MEMORY_MIN_GB]
    @@ "t1w_boldref" :>
          [kind |-> "Node", interface |-> "ApplyTransforms", dimension |-> 3,
           default_value |-> 0, float |-> TRUE, invert_transform_flags |-> <<TRUE>>,
           interpolation |-> "LanczosWindowedSinc", mem_gb |-> OneGb]
    @@ "t1w_wm" :>
          [kind |-> "Node", interface |-> "Function", function |-> "dseg_label",
           label |-> 2, mem_gb |-> DEFAULT_MEMORY_MIN_GB]
    @@ "boldref_wm" :>
          [kind |-> "Node", interface |-> "ApplyTransforms", dimension |-> 3,
           default_value |-> 0, invert_transform_flags |-> <<TRUE>>,
           interpolation |-> "NearestNeighbor", mem_gb |-> OneGb]
    @@ "epi_t1_report" :>
          [kind |-> "Node", interface |-> "SimpleBeforeAfter", before_label |-> "T1w",
           after_label |-> "EPI", dismiss_affine |-> TRUE, mem_gb |-> TenthGb]
    @@ "ds_epi_t1_report" :>
          [kind |-> "Node", interface |-> "DerivativesDataSink",
           base_directory |-> "output_dir", desc |-> "coreg", suffix |-> "bold",
           datatype |-> "figures", dismiss_entities |-> <<"echo">>]

func_fit_reports_nodes_sdc ==
    "fmapref_boldref" :>
          [kind |-> "Node", interface |-> "ApplyTransforms", dimension |-> 3,
           default_value |-> 0, float |-> TRUE, invert_transform_flags |-> <<TRUE>>,
           interpolation |-> "LanczosWindowedSinc", mem_gb |-> OneGb]
    @@ "sdecreg_report" :>
          [kind |-> "Node", interface |-> "FieldmapReportlet",
           reference_label |-> "BOLD reference", moving_label |-> "Fieldmap reference",
           show |-> "both", mem_gb |-> TenthGb]
    @@ "ds_sdcreg_report" :>
          [kind |-> "Node", interface |-> "DerivativesDataSink",
           base_directory |-> "output_dir", desc |-> "fmapCoreg", suffix |-> "bold",
           datatype |-> "figures", dismiss_entities |-> <<"echo">>]
    @@ "sdc_report" :>
          [kind |-> "Node", interface |-> "SimpleBeforeAfter", before_label |-> "Distorted",
           after_label |-> "Corrected", dismiss_affine |-> TRUE, mem_gb |-> TenthGb]
    @@ "ds_sdc_report" :>
          [kind |-> "Node", interface |-> "DerivativesDataSink",
           base_directory |-> "output_dir", desc |-> "sdc", suffix |-> "bold",
           datatype |-> "figures", dismiss_entities |-> <<"echo">>]

func_fit_reports_nodes(sdc_correction) ==
    IF sdc_correction THEN func_fit_reports_nodes_base @@ func_fit_reports_nodes_sdc
    ELSE func_fit_reports_nodes_base

(***************************************************************************)
(* Nodes of init_ds_bold_native_wf(multiecho, bold_output, echo_output,    *)
(* all_metadata), where metadata = all_metadata[0]                         *)
(***************************************************************************)
\* metadata.get('TaskName')
TaskNameOf(md) == IF Has(md, "TaskName") THEN md["TaskName"] ELSE "None"

\* [{"EchoTime": md["EchoTime"]} for md in all_metadata]
EchoTimesOf(all_metadata) ==
    [i \in DOMAIN all_metadata |-> [EchoTime |-> all_metadata[i]["EchoTime"]]]

raw_sources_node ==
    [kind |-> "Node", interface |-> "Function", function |-> "_bids_relative",
     bids_root |-> "bids_root"]

\* mutant of ds_bold_node: SkullStripped is always False
ds_bold_node_neverStripped(multiecho, md, timing_parameters) ==
    Merge2([kind |-> "Node", interface |-> "DerivativesDataSink",
            base_directory |-> "output_dir", desc |-> "preproc", compress |-> TRUE,
            SkullStripped |-> FALSE, TaskName |-> TaskNameOf(md),
            dismiss_entities |-> <<"echo">>, mem_gb |-> DEFAULT_MEMORY_MIN_GB],
           timing_parameters)

\* the sink of the preprocessed BOLD series, the same in init_ds_bold_native_wf and
\* init_ds_volumes_wf
ds_bold_node(multiecho, md, timing_parameters) ==
    Merge2([kind |-> "Node", interface |-> "DerivativesDataSink",
            base_directory |-> "output_dir", desc |-> "preproc", compress |-> TRUE,
            SkullStripped |-> multiecho, TaskName |-> TaskNameOf(md),
            dismiss_entities |-> <<"echo">>, mem_gb |-> DEFAULT_MEMORY_MIN_GB],
           timing_parameters)

\* mutant of ds_bold_echos_node: meta_dict is not an iterfield
ds_bold_echos_node_noMetaDict(all_metadata, timing_parameters) ==
    Merge2([kind |-> "MapNode", interface |-> "DerivativesDataSink",
            base_directory |-> "output_dir", desc |-> "preproc", compress |-> TRUE,
            SkullStripped |-> FALSE, TaskName |-> TaskNameOf(all_metadata[1]),
            iterfield |-> <<"source_file", "in_file">>,
            run_without_submitting |-> TRUE, mem_gb |-> DEFAULT_MEMORY_MIN_GB,
            meta_dict |-> EchoTimesOf(all_metadata)],
           timing_parameters)

\* ds_bold_echos, with ds_bold_echos.inputs.meta_dict set from all_metadata
ds_bold_echos_node(all_metadata, timing_parameters) ==
    Merge2([kind |-> "MapNode", interface |-> "DerivativesDataSink",
            base_directory |-> "output_dir", desc |-> "preproc", compress |-> TRUE,
            SkullStripped |-> FALSE, TaskName |-> TaskNameOf(all_metadata[1]),
            iterfield |-> <<"source_file", "in_file", "meta_dict">>,
            run_without_submitting |-> TRUE, mem_gb |-> DEFAULT_MEMORY_MIN_GB,
            meta_dict |-> EchoTimesOf(all_metadata)],
           timing_parameters)

ds_bold_native_nodes(multiecho, bold_output, echo_output, all_metadata, timing_parameters) ==
    "inputnode" :> [kind |-> "Node", interface |-> "IdentityInterface",
                    fields |-> <<"source_files", "bold", "bold_mask", "bold_echos",
                                 "t2star">>]
    @@ "raw_sources" :> raw_sources_node
    @@ "ds_bold_mask" :>
          [kind |-> "Node", interface |-> "DerivativesDataSink",
           base_directory |-> "output_dir", desc |-> "brain", suffix |-> "mask",
           compress |-> TRUE, dismiss_entities |-> <<"echo">>,
           run_without_submitting |-> TRUE, mem_gb |-> DEFAULT_MEMORY_MIN_GB]
    @@ (IF bold_output
        THEN "ds_bold" :> ds_bold_node(multiecho, all_metadata[1], timing_parameters)
        ELSE EmptyDict)
    @@ (IF bold_output /\ multiecho
        THEN "ds_t2star_bold" :>
                 Merge2([kind |-> "Node", interface |-> "DerivativesDataSink",
                         base_directory |-> "output_dir", space |-> "boldref",
                         suffix |-> "T2starmap", compress |-> TRUE,
                         dismiss_entities |-> <<"echo">>, run_without_submitting |-> TRUE,
                         mem_gb |-> DEFAULT_MEMORY_MIN_GB],
                        t2star_meta)
        ELSE EmptyDict)
    @@ (IF echo_output
        THEN "ds_bold_echos" :> ds_bold_echos_node(all_metadata, timing_parameters)
        ELSE EmptyDict)

(***************************************************************************)
(* Nodes of init_ds_volumes_wf(multiecho, metadata)                        *)
(***************************************************************************)
ds_volumes_nodes(multiecho, md, timing_parameters) ==
    "inputnode" :> [kind |-> "Node", interface |-> "IdentityInterface",
                    fields |-> <<"source_files", "ref_file", "bold", "bold_mask",
                                 "bold_ref", "t2star", "boldref2anat_xfm", "anat2std_xfm",
                                 "space", "cohort", "resolution">>]
    @@ "raw_sources" :> raw_sources_node
    @@ "boldref2target" :> [kind |-> "Node", interface |-> "Merge", numinputs |-> 2]
    @@ "ds_bold" :> ds_bold_node(multiecho, md, timing_parameters)
    @@ "resample_ref" :>
          [kind |-> "Node", interface |-> "ApplyTransforms", dimension |-> 3,
           default_value |-> 0, float |-> TRUE, interpolation |-> "LanczosWindowedSinc"]
    @@ "resample_mask" :>
          [kind |-> "Node", interface |-> "ApplyTransforms", interpolation |-> "MultiLabel"]
    @@ "ds_ref" :>
          [kind |-> "Node", interface |-> "DerivativesDataSink",
           base_directory |-> "output_dir", suffix |-> "boldref", compress |-> TRUE,
           dismiss_entities |-> <<"echo">>, run_without_submitting |-> TRUE,
           mem_gb |-> DEFAULT_MEMORY_MIN_GB]
    @@ "ds_mask" :>
          [kind |-> "Node", interface |-> "DerivativesDataSink",
           base_directory |-> "output_dir", desc |-> "brain", suffix |-> "mask",
           compress |-> TRUE, dismiss_entities |-> <<"echo">>,
           run_without_submitting |-> TRUE, mem_gb |-> DEFAULT_MEMORY_MIN_GB]
    @@ (IF multiecho
        THEN "resample_t2star" :>
                 [kind |-> "Node", interface |-> "ApplyTransforms", dimension |-> 3,
                  default_value |-> 0, float |-> TRUE,
                  interpolation |-> "LanczosWindowedSinc"]
             @@ "ds_t2star_std" :>
                 Merge2([kind |-> "Node", interface |-> "DerivativesDataSink",
                         base_directory |-> "output_dir", suffix |-> "T2starmap",
                         compress |-> TRUE, dismiss_entities |-> <<"echo">>,
                         run_without_submitting |-> TRUE,
                         mem_gb |-> DEFAULT_MEMORY_MIN_GB],
                        t2star_meta)
        ELSE EmptyDict)

(***************************************************************************)
(* Nodes of init_ds_boldref_wf(desc), init_ds_registration_wf(source,      *)
(* dest) and init_ds_hmc_wf()                                              *)
(***************************************************************************)
ds_boldref_nodes(desc) ==
    "inputnode" :> [kind |-> "Node", interface |-> "IdentityInterface",
                    fields |-> <<"source_files", "boldref">>]
    @@ "outputnode" :> [kind |-> "Node", interface |-> "IdentityInterface",
                        fields |-> <<"boldref">>]
    @@ "raw_sources" :> raw_sources_node
    @@ "ds_boldref" :>
          [kind |-> "Node", interface |-> "DerivativesDataSink",
           base_directory |-> "output_dir", desc |-> desc, suffix |-> "boldref",
           compress |-> TRUE, dismiss_entities |-> <<"echo">>,
           run_without_submitting |-> TRUE]

ds_registration_nodes(source, dest) ==
    "inputnode" :> [kind |-> "Node", interface |-> "IdentityInterface",
                    fields |-> <<"source_files", "xform">>]
    @@ "outputnode" :> [kind |-> "Node", interface |-> "IdentityInterface",
                        fields |-> <<"xform">>]
    @@ "raw_sources" :> raw_sources_node
    @@ "ds_xform" :>
          [kind |-> "Node", interface |-> "DerivativesDataSink",
           base_directory |-> "output_dir", mode |-> "image", suffix |-> "xfm",
           extension |-> ".txt", dismiss_entities |-> <<"echo", "part">>,
           from |-> source, to |-> dest,
           run_without_submitting |-> TRUE, mem_gb |-> DEFAULT_MEMORY_MIN_GB]

ds_hmc_nodes ==
    "inputnode" :> [kind |-> "Node", interface |-> "IdentityInterface",
                    fields |-> <<"source_files", "xforms">>]
    @@ "outputnode" :> [kind |-> "Node", interface |-> "IdentityInterface",
                        fields |-> <<"xforms">>]
    @@ "raw_sources" :> raw_sources_node
    @@ "ds_xforms" :>
          [kind |-> "Node", interface |-> "DerivativesDataSink",
           base_directory |-> "output_dir", desc |-> "hmc", suffix |-> "xfm",
           extension |-> ".txt", compress |-> TRUE, dismiss_entities |-> <<"echo">>,
           from |-> "orig", to |-> "boldref", run_without_submitting |-> TRUE]

(***************************************************************************)
(* Nodes of init_bold_surf_wf(mem_gb, surface_spaces, medial_surface_nan,  *)
(* metadata)                                                               *)
(***************************************************************************)
\* mutant of itersource_node: only the first surface space is iterated over
itersource_node_firstOnly(surface_spaces) ==
    [kind |-> "Node", interface |-> "IdentityInterface", fields |-> <<"target">>,
     iterables |-> <<<<"target", SubSeq(surface_spaces, 1, 1)>>>>]

\* itersource, with itersource.iterables = [("target", surface_spaces)]
itersource_node(surface_spaces) ==
    [kind |-> "Node", interface |-> "IdentityInterface", fields |-> <<"target">>,
     iterables |-> <<<<"target", surface_spaces>>>>]

\* mutant of ds_bold_surfs_node: hemi is not an iterfield
ds_bold_surfs_node_inFileOnly(md, timing_parameters) ==
    Merge2([kind |-> "MapNode", interface |-> "DerivativesDataSink",
            base_directory |-> "output_dir", extension |-> ".func.gii",
            TaskName |-> TaskNameOf(md), iterfield |-> <<"in_file">>,
            run_without_submitting |-> TRUE, mem_gb |-> DEFAULT_MEMORY_MIN_GB,
            hemi |-> <<"L", "R">>],
           timing_parameters)

\* ds_bold_surfs, with ds_bold_surfs.inputs.hemi = ["L", "R"]
ds_bold_surfs_node(md, timing_parameters) ==
    Merge2([kind |-> "MapNode", interface |-> "DerivativesDataSink",
            base_directory |-> "output_dir", extension |-> ".func.gii",
            TaskName |-> TaskNameOf(md), iterfield |-> <<"in_file", "hemi">>,
            run_without_submitting |-> TRUE, mem_gb |-> DEFAULT_MEMORY_MIN_GB,
            hemi |-> <<"L", "R">>],
           timing_parameters)

\* mutant of sampler_node: the right hemisphere is sampled first
sampler_node_rightFirst(mem_gb) ==
    [kind |-> "MapNode", interface |-> "SampleToSurface",
     interp_method |-> "trilinear", out_type |-> "gii", override_reg_subj |-> TRUE,
     sampling_method |-> "average", sampling_range |-> <<"0", "1", "0.2">>,
     sampling_units |-> "frac", iterfield |-> <<"hemi">>, mem_gb |-> mem_gb * 3,
     hemi |-> <<"rh", "lh">>]

\* sampler, with sampler.inputs.hemi = ["lh", "rh"]
sampler_node(mem_gb) ==
    [kind |-> "MapNode", interface |-> "SampleToSurface",
     interp_method |-> "trilinear", out_type |-> "gii", override_reg_subj |-> TRUE,
     sampling_method |-> "average", sampling_range |-> <<"0", "1", "0.2">>,
     sampling_units |-> "frac", iterfield |-> <<"hemi">>, mem_gb |-> mem_gb * 3,
     hemi |-> <<"lh", "rh">>]

bold_surf_nodes(mem_gb, surface_spaces, md, timing_parameters) ==
    "inputnode" :> [kind |-> "Node", interface |-> "IdentityInterface",
                    fields |-> <<"source_file", "bold_t1w", "subject_id", "subjects_dir",
                                 "fsnative2t1w_xfm">>]
    @@ "itersource" :> itersource_node(surface_spaces)
    @@ "get_fsnative" :> [kind |-> "Node", interface |-> "FreeSurferSource",
                          run_without_submitting |-> TRUE]
    @@ "targets" :> [kind |-> "Node", interface |-> "Function",
                     function |-> "select_target", run_without_submitting |-> TRUE,
                     mem_gb |-> DEFAULT_MEMORY_MIN_GB]
    @@ "itk2lta" :> [kind |-> "Node", interface |-> "ConcatenateXFMs", out_fmt |-> "fs",
                     inverse |-> TRUE, run_without_submitting |-> TRUE]
    @@ "sampler" :> sampler_node(mem_gb)
    @@ "update_metadata" :>
          [kind |-> "MapNode", interface |-> "GiftiSetAnatomicalStructure",
           iterfield |-> <<"in_file">>, mem_gb |-> DEFAULT_MEMORY_MIN_GB]
    @@ "ds_bold_surfs" :> ds_bold_surfs_node(md, timing_parameters)
    @@ "medial_nans" :>
          [kind |-> "MapNode", interface |-> "MedialNaNs", iterfield |-> <<"in_file">>,
           mem_gb |-> DEFAULT_MEMORY_MIN_GB]

(***************************************************************************)
(* Nodes of init_goodvoxels_bold_mask_wf(mem_gb)                           *)
(***************************************************************************)
goodvoxels_bold_mask_nodes(mem_gb) ==
    "inputnode" :> [kind |-> "Node", interface |-> "IdentityInterface",
                    fields |-> <<"anat_ribbon", "bold_file">>]
    @@ "outputnode" :>
          [kind |-> "Node", interface |-> "IdentityInterface",
           fields |-> <<"goodvoxels_mask", "goodvoxels_ribbon">>]
    @@ "ribbon_boldsrc_xfm" :>
          [kind |-> "Node", interface |-> "ApplyTransforms",
           interpolation |-> "MultiLabel", transforms |-> "identity", mem_gb |-> mem_gb]
    @@ "stdev_volume" :>
          [kind |-> "Node", interface |-> "StdImage", dimension |-> "T",
           mem_gb |-> DEFAULT_MEMORY_MIN_GB]
    @@ "mean_volume" :>
          [kind |-> "Node", interface |-> "MeanImage", dimension |-> "T",
           mem_gb |-> DEFAULT_MEMORY_MIN_GB]
    @@ "cov_volume" :>
          [kind |-> "Node", interface |-> "BinaryMaths", operation |-> "div",
           mem_gb |-> DEFAULT_MEMORY_MIN_GB]
    @@ "cov_ribbon" :>
          [kind |-> "Node", interface |-> "ApplyMask", mem_gb |-> DEFAULT_MEMORY_MIN_GB]
    @@ "cov_ribbon_mean" :>
          [kind |-> "Node", interface |-> "ImageStats", op_string |-> "-M",
           mem_gb |-> DEFAULT_MEMORY_MIN_GB]
    @@ "cov_ribbon_std" :>
          [kind |-> "Node", interface |-> "ImageStats", op_string |-> "-S",
           mem_gb |-> DEFAULT_MEMORY_MIN_GB]
    @@ "cov_ribbon_norm" :>
          [kind |-> "Node", interface |-> "BinaryMaths", operation |-> "div",
           mem_gb |-> DEFAULT_MEMORY_MIN_GB]
    @@ "smooth_norm" :>
          [kind |-> "Node", interface |-> "MathsCommand", args |-> "-bin -s 5",
           mem_gb |-> DEFAULT_MEMORY_MIN_GB]
    @@ "merge_smooth_norm" :>
          [kind |-> "Node", interface |-> "Merge", numinputs |-> 1,
           mem_gb |-> DEFAULT_MEMORY_MIN_GB, run_without_submitting |-> TRUE]
    @@ "cov_ribbon_norm_smooth" :>
          [kind |-> "Node", interface |-> "MultiImageMaths",
           op_string |-> "-s 5 -div %s -dilD", mem_gb |-> DEFAULT_MEMORY_MIN_GB]
    @@ "cov_norm" :>
          [kind |-> "Node", interface |-> "BinaryMaths", operation |-> "div",
           mem_gb |-> DEFAULT_MEMORY_MIN_GB]
    @@ "cov_norm_modulate" :>
          [kind |-> "Node", interface |-> "BinaryMaths", operation |-> "div",
           mem_gb |-> DEFAULT_MEMORY_MIN_GB]
    @@ "cov_norm_modulate_ribbon" :>
          [kind |-> "Node", interface |-> "ApplyMask", mem_gb |-> DEFAULT_MEMORY_MIN_GB]
    @@ "upper_thr_val" :>
          [kind |-> "Node", interface |-> "Function", input_names |-> <<"in_stats">>,
           output_names |-> <<"upper_thresh">>, function |-> "_calc_upper_thr",
           mem_gb |-> DEFAULT_MEMORY_MIN_GB]
    @@ "lower_thr_val" :>
          [kind |-> "Node", interface |-> "Function", input_names |-> <<"in_stats">>,
           output_names |-> <<"lower_thresh">>, function |-> "_calc_lower_thr",
           mem_gb |-> DEFAULT_MEMORY_MIN_GB]
    @@ "mod_ribbon_mean" :>
          [kind |-> "Node", interface |-> "ImageStats", op_string |-> "-M",
           mem_gb |-> DEFAULT_MEMORY_MIN_GB]
    @@ "mod_ribbon_std" :>
          [kind |-> "Node", interface |-> "ImageStats", op_string |-> "-S",
           mem_gb |-> DEFAULT_MEMORY_MIN_GB]
    @@ "merge_mod_ribbon_stats" :>
          [kind |-> "Node", interface |-> "Merge", numinputs |-> 2,
           mem_gb |-> DEFAULT_MEMORY_MIN_GB, run_without_submitting |-> TRUE]
    @@ "bin_mean_volume" :>
          [kind |-> "Node", interface |-> "UnaryMaths", operation |-> "bin",
           mem_gb |-> DEFAULT_MEMORY_MIN_GB]
    @@ "merge_goodvoxels_operands" :>
          [kind |-> "Node", interface |-> "Merge", numinputs |-> 2,
           mem_gb |-> DEFAULT_MEMORY_MIN_GB, run_without_submitting |-> TRUE]
    @@ "goodvoxels_thr" :>
          [kind |-> "Node", interface |-> "Threshold", mem_gb |-> mem_gb]
    @@ "goodvoxels_mask" :>
          [kind |-> "Node", interface |-> "MultiImageMaths",
           op_string |-> "-bin -sub %s -mul -1", mem_gb |-> mem_gb]
    @@ "goodvoxels_ribbon_mask" :>
          [kind |-> "Node", interface |-> "ApplyMask", name_source |-> <<"in_file">>,
           keep_extension |-> TRUE, mem_gb |-> DEFAULT_MEMORY_MIN_GB]

(***************************************************************************)
(* Nodes of init_bold_fsLR_resampling_wf(estimate_goodvoxels,              *)
(* omp_nthreads, mem_gb)                                                   *)
(***************************************************************************)
\* mutant of volume_to_surface_node: no resource hints are declared
volume_to_surface_node_noHints(omp_nthreads, mem_gb) ==
    [kind |-> "Node", interface |-> "VolumeToSurfaceMapping",
     method |-> "ribbon-constrained"]

\* volume_to_surface, with mem_gb=mem_gb * 3 and n_procs=omp_nthreads
volume_to_surface_node(omp_nthreads, mem_gb) ==
    [kind |-> "Node", interface |-> "VolumeToSurfaceMapping",
     method |-> "ribbon-constrained", mem_gb |-> mem_gb * 3, n_procs |-> omp_nthreads]

\* mutant of hemisource_node: the right hemisphere is iterated over first
hemisource_node_rightFirst ==
    [kind |-> "Node", interface |-> "IdentityInterface", fields |-> <<"hemi">>,
     iterables |-> <<<<"hemi", <<"R", "L">>>>>>]

\* hemisource, with iterables=[('hemi', ['L', 'R'])]
hemisource_node ==
    [kind |-> "Node", interface |-> "IdentityInterface", fields |-> <<"hemi">>,
     iterables |-> <<<<"hemi", <<"L", "R">>>>>>]

\* mutant of joinnode_node: a plain node, which joins nothing
joinnode_node_plain ==
    [kind |-> "Node", interface |-> "IdentityInterface", fields |-> <<"bold_fsLR">>]

\* joinnode, a JoinNode with joinsource='hemisource'
joinnode_node ==
    [kind |-> "JoinNode", interface |-> "IdentityInterface", fields |-> <<"bold_fsLR">>,
     joinsource |-> "hemisource"]

bold_fsLR_resampling_nodes(estimate_goodvoxels, omp_nthreads, mem_gb) ==
    "inputnode" :> [kind |-> "Node", interface |-> "IdentityInterface",
                    fields |-> <<"bold_file", "anat_ribbon", "white", "pial",
                                 "midthickness", "midthickness_fsLR", "sphere_reg_fsLR",
                                 "cortex_mask">>]
    @@ "hemisource" :> hemisource_node
    @@ "joinnode" :> joinnode_node
    @@ "outputnode" :> [kind |-> "Node", interface |-> "IdentityInterface",
                        fields |-> <<"bold_fsLR", "goodvoxels_mask">>]
    @@ "select_surfaces" :>
          [kind |-> "Node", interface |-> "KeySelect",
           fields |-> <<"white", "pial", "midthickness", "midthickness_fsLR",
                        "sphere_reg_fsLR", "template_sphere", "cortex_mask",
                        "template_roi">>,
           keys |-> <<"L", "R">>, run_without_submitting |-> TRUE,
           template_sphere |-> <<"L.sphere.surf.gii", "R.sphere.surf.gii">>,
           template_roi |-> <<"L.atlasroi.32k_fs_LR.shape.gii",
                              "R.atlasroi.32k_fs_LR.shape.gii">>]
    @@ "volume_to_surface" :> volume_to_surface_node(omp_nthreads, mem_gb)
    @@ "metric_dilate" :>
          [kind |-> "Node", interface |-> "MetricDilate", distance |-> 10,
           nearest |-> TRUE, n_procs |-> omp_nthreads]
    @@ "mask_native" :> [kind |-> "Node", interface |-> "MetricMask"]
    @@ "resample_to_fsLR" :>
          [kind |-> "Node", interface |-> "MetricResample", method |-> "ADAP_BARY_AREA",
           area_surfs |-> TRUE, n_procs |-> omp_nthreads]
    @@ "mask_fsLR" :> [kind |-> "Node", interface |-> "MetricMask"]
    @@ (IF estimate_goodvoxels
        THEN NestedNodes("goodvoxels_bold_mask_wf", goodvoxels_bold_mask_nodes(mem_gb))
        ELSE EmptyDict)

(***************************************************************************)
(* The workflows built so far, by name.  A built workflow records the      *)
(* arguments it was built with, its connections, its nodes with their      *)
(* static configuration, and the timing parameters handed to its sinks     *)
(* (none: the empty dict).                                                 *)
(***************************************************************************)
Workflow(flags, connections, nodes, timing) ==
    [flags |-> flags, connections |-> connections,
     nodes |-> Connected(nodes, connections), timing |-> timing]

Put(f, k, v) == [x \in (DOMAIN f) \cup {k} |-> IF x = k THEN v ELSE f[x]]

\* timing_parameters = prepare_timing_parameters(metadata)
SinkTiming == prepare_timing_parameters(metadata, ignore, slice_time_ref).value

\* the values of the mem_gb argument: 1, as in the example of
\* init_bold_fsLR_resampling_wf
MemGbs == {OneGb}

\* largest omp_nthreads
MaxThreads == 2

\* longest surface_spaces
MaxSpaces == 2

SpaceNames == <<"fsnative", "fsaverage", "fsaverage5", "fsaverage6">>

SurfaceSpaces == {SubSeq(SpaceNames, 1, K) : K \in 1..MaxSpaces}

\* largest number of echoes
MaxEchos == 2

\* all_metadata of a run of n echoes: the metadata, with EchoTime i for echo i
AllMetadata(n) == [i \in 1..n |-> DictSet(metadata, "EchoTime", i)]

\* the workflow each builder returns
func_fit_reports_wf(sdc_correction) ==
    Workflow([sdc_correction |-> sdc_correction],
             func_fit_reports_connections(sdc_correction),
             func_fit_reports_nodes(sdc_correction), EmptyDict)

ds_bold_native_wf(multiecho, bold_output, echo_output, all_metadata) ==
    Workflow([multiecho |-> multiecho, bold_output |-> bold_output,
              echo_output |-> echo_output, all_metadata |-> all_metadata],
             ds_bold_native_connections(multiecho, bold_output, echo_output),
             ds_bold_native_nodes(multiecho, bold_output, echo_output, all_metadata,
                                  SinkTiming),
             SinkTiming)

ds_volumes_wf(multiecho) ==
    Workflow([multiecho |-> multiecho], ds_volumes_connections(multiecho),
             ds_volumes_nodes(multiecho, metadata, SinkTiming), SinkTiming)

bold_surf_wf(mem_gb, surface_spaces, medial_surface_nan) ==
    Workflow([medial_surface_nan |-> medial_surface_nan, mem_gb |-> mem_gb,
              surface_spaces |-> surface_spaces],
             bold_surf_connections(medial_surface_nan),
             bold_surf_nodes(mem_gb, surface_spaces, metadata, SinkTiming), SinkTiming)

goodvoxels_bold_mask_wf(mem_gb) ==
    Workflow([mem_gb |-> mem_gb], goodvoxels_bold_mask_connections,
             goodvoxels_bold_mask_nodes(mem_gb), EmptyDict)

bold_fsLR_resampling_wf(estimate_goodvoxels, omp_nthreads, mem_gb) ==
    Workflow([estimate_goodvoxels |-> estimate_goodvoxels, omp_nthreads |-> omp_nthreads,
              mem_gb |-> mem_gb],
             bold_fsLR_resampling_connections(estimate_goodvoxels),
             bold_fsLR_resampling_nodes(estimate_goodvoxels, omp_nthreads, mem_gb),
             EmptyDict)

\* the desc arguments init_ds_boldref_wf is built with
Descs == {"hmc", "coreg"}

\* the (source, dest) arguments init_ds_registration_wf is built with
Registrations == {<<"boldref", "T1w">>, <<"boldref", "auto00000">>}

ds_boldref_wf(desc) ==
    Workflow([desc |-> desc], ds_boldref_connections, ds_boldref_nodes(desc), EmptyDict)

ds_registration_wf(source, dest) ==
    Workflow([source |-> source, dest |-> dest], ds_registration_connections,
             ds_registration_nodes(source, dest), EmptyDict)

ds_hmc_wf == Workflow(EmptyDict, ds_hmc_connections, ds_hmc_nodes, EmptyDict)

init_func_fit_reports_wf ==
    /\ "func_fit_reports_wf" \notin DOMAIN built
    /\ \E sdc_correction \in BOOLEAN :
           built' = Put(built, "func_fit_reports_wf", func_fit_reports_wf(sdc_correction))
    /\ UNCHANGED <<metadata, ignore, slice_time_ref, returns, run>>

init_ds_boldref_wf ==
    /\ "ds_boldref_wf" \notin DOMAIN built
    /\ \E desc \in Descs : built' = Put(built, "ds_boldref_wf", ds_boldref_wf(desc))
    /\ UNCHANGED <<metadata, ignore, slice_time_ref, returns, run>>

init_ds_registration_wf ==
    /\ "ds_registration_wf" \notin DOMAIN built
    /\ \E r \in Registrations :
           built' = Put(built, "ds_registration_wf", ds_registration_wf(r[1], r[2]))
    /\ UNCHANGED <<metadata, ignore, slice_time_ref, returns, run>>

init_ds_hmc_wf ==
    /\ "ds_hmc_wf" \notin DOMAIN built
    /\ built' = Put(built, "ds_hmc_wf", ds_hmc_wf)
    /\ UNCHANGED <<metadata, ignore, slice_time_ref, returns, run>>

init_ds_bold_native_wf ==
    /\ "ds_bold_native_wf" \notin DOMAIN built
    /\ \E multiecho \in BOOLEAN, bold_output \in BOOLEAN, echo_output \in BOOLEAN,
          echos \in 1..MaxEchos :
           built' = Put(built, "ds_bold_native_wf",
                        ds_bold_native_wf(multiecho, bold_output, echo_output,
                                          AllMetadata(echos)))
    /\ UNCHANGED <<metadata, ignore, slice_time_ref, returns, run>>

init_ds_volumes_wf ==
    /\ "ds_volumes_wf" \notin DOMAIN built
    /\ \E multiecho \in BOOLEAN :
           built' = Put(built, "ds_volumes_wf", ds_volumes_wf(multiecho))
    /\ UNCHANGED <<metadata, ignore, slice_time_ref, returns, run>>

init_bold_surf_wf ==
    /\ "bold_surf_wf" \notin DOMAIN built
    /\ \E medial_surface_nan \in BOOLEAN, mem_gb \in MemGbs,
          surface_spaces \in SurfaceSpaces :
           built' = Put(built, "bold_surf_wf",
                        bold_surf_wf(mem_gb, surface_spaces, medial_surface_nan))
    /\ UNCHANGED <<metadata, ignore, slice_time_ref, returns, run>>

init_goodvoxels_bold_mask_wf ==
    /\ "goodvoxels_bold_mask_wf" \notin DOMAIN built
    /\ \E mem_gb \in MemGbs :
           built' = Put(built, "goodvoxels_bold_mask_wf", goodvoxels_bold_mask_wf(mem_gb))
    /\ UNCHANGED <<metadata, ignore, slice_time_ref, returns, run>>

init_bold_fsLR_resampling_wf ==
    /\ "bold_fsLR_resampling_wf" \notin DOMAIN built
    /\ \E estimate_goodvoxels \in BOOLEAN, omp_nthreads \in 1..MaxThreads,
          mem_gb \in MemGbs :
           built' = Put(built, "bold_fsLR_resampling_wf",
                        bold_fsLR_resampling_wf(estimate_goodvoxels, omp_nthreads, mem_gb))
    /\ UNCHANGED <<metadata, ignore, slice_time_ref, returns, run>>

\* the metadata the workflows are built for: the docstring's examples, in ticks
BuildMetadatas ==
    {[RepetitionTime |-> 2 * CoarseTicks, SliceTiming |-> <<0, CoarseTicks>>,
      TaskName |-> "rest"],
     [RepetitionTime |-> 2 * CoarseTicks, TaskName |-> "rest"]}

InitBuild ==
    /\ metadata \in BuildMetadatas
    /\ ignore = {}
    /\ slice_time_ref = FracDen
    /\ returns = <<>>
    /\ built = Unbuilt
    /\ run = NoRun

NextBuild ==
    \/ init_func_fit_reports_wf
    \/ init_ds_bold_native_wf
    \/ init_ds_volumes_wf
    \/ init_bold_surf_wf
    \/ init_goodvoxels_bold_mask_wf
    \/ init_bold_fsLR_resampling_wf

SpecBuild == InitBuild /\ [][NextBuild]_vars

\* the builders of the workflows that write derivatives of the BOLD series
NextSinks ==
    \/ init_ds_boldref_wf
    \/ init_ds_registration_wf
    \/ init_ds_hmc_wf
    \/ init_ds_bold_native_wf
    \/ init_ds_volumes_wf

SpecSinks == InitBuild /\ [][NextSinks]_vars

(***************************************************************************)
(* The input of the call, read off the state independently of the code:    *)
(* the SliceTiming sequence, its extremes, and the acquisition span        *)
(* max + (second-smallest - smallest).                                     *)
(***************************************************************************)
InSliceTiming == IF Has(metadata, "SliceTiming") THEN metadata["SliceTiming"] ELSE <<>>

Smallest(s) == CHOOSE x \in {s[i] : i \in DOMAIN s} : \A j \in DOMAIN s : x <= s[j]

Largest(s) == CHOOSE x \in {s[i] : i \in DOMAIN s} : \A j \in DOMAIN s : s[j] <= x

\* the smallest entry once one occurrence of the smallest is set aside
SecondSmallest(s) ==
    LET i0 == CHOOSE i \in DOMAIN s : s[i] = Smallest(s)
    IN  CHOOSE x \in {s[j] : j \in (DOMAIN s) \ {i0}} : \A j \in (DOMAIN s) \ {i0} : x <= s[j]

InTA == Largest(InSliceTiming) + (SecondSmallest(InSliceTiming) - Smallest(InSliceTiming))

InTR == metadata["RepetitionTime"]

\* |TR - TA| <= 1e-8 + 1e-5 * |TA| seconds, on ticks (the span is under 4 s)
WithinTolerance(TR, TA) == Abs(TR - TA) <= 4 /\ Abs(TR - TA) * 100000 <= 100 + Abs(TA)

\* key k is carried from the input to the output as it is: same presence, same value
PassedThrough(out, k) ==
    /\ Has(out, k) <=> Has(metadata, k)
    /\ Has(out, k) /\ Has(metadata, k) => out[k] = metadata[k]

Returned(i) == returns[i].raised = ""

\* C1: every call returns a mapping that contains SliceTimingCorrected, and
\* SliceTimingCorrected is true iff SliceTiming has more than one entry and
\* 'slicetiming' is not in the skip set.
C1_SliceTimingCorrectedIff ==
    \A i \in DOMAIN returns :
        LET out == returns[i].value
        IN  /\ Returned(i)
            /\ Has(out, "SliceTimingCorrected")
            /\ (out["SliceTimingCorrected"] = TRUE)
                   <=> (Len(InSliceTiming) > 1 /\ "slicetiming" \notin ignore)

C1_Witness ==
    /\ returns # <<>>
    /\ Has(returns[1].value, "SliceTimingCorrected")
    /\ returns[1].value["SliceTimingCorrected"] = TRUE
    /\ "fieldmaps" \in ignore

\* C2 as stated: with more than one slice onset and RepetitionTime present, if TA is
\* neither equal to RepetitionTime nor greater than it, DelayTime = RepetitionTime - TA;
\* otherwise no DelayTime is derived (the input's DelayTime, if any, is what is returned).
C2_AsStated ==
    \A i \in DOMAIN returns :
        LET out == returns[i].value
        IN  (Len(InSliceTiming) > 1 /\ Has(metadata, "RepetitionTime")) =>
                IF InTA # InTR /\ ~(InTA > InTR)
                THEN Has(out, "DelayTime") /\ out["DelayTime"] = InTR - InTA
                ELSE PassedThrough(out, "DelayTime")

\* C2 amended: with more than one slice onset and RepetitionTime present, if TA is below
\* RepetitionTime and not within numpy.isclose's tolerance of it
\* (|TR - TA| <= 1e-8 + 1e-5 * |TA|), DelayTime = RepetitionTime - TA, so that
\* TA + DelayTime = RepetitionTime and DelayTime > 0; otherwise no DelayTime is derived.
C2_DelayTimeUnlessClose ==
    \A i \in DOMAIN returns :
        LET out == returns[i].value
        IN  (Len(InSliceTiming) > 1 /\ Has(metadata, "RepetitionTime")) =>
                IF ~WithinTolerance(InTR, InTA) /\ InTA < InTR
                THEN /\ Has(out, "DelayTime")
                     /\ out["DelayTime"] = InTR - InTA
                     /\ InTA + out["DelayTime"] = InTR
                     /\ out["DelayTime"] > 0
                ELSE PassedThrough(out, "DelayTime")

\* a span just under RepetitionTime, inside the tolerance: nothing is derived
C2_Witness ==
    /\ returns # <<>>
    /\ Len(InSliceTiming) > 1
    /\ Has(metadata, "RepetitionTime")
    /\ InTA < InTR
    /\ WithinTolerance(InTR, InTA)
    /\ ~Has(returns[1].value, "DelayTime")

\* C3 as stated: with more than one slice onset, when the DelayTime condition
\* (RepetitionTime present, TA below and not equal to it) does not hold and VolumeTiming
\* is present, AcquisitionDuration = TA.
C3_AsStated ==
    \A i \in DOMAIN returns :
        LET out == returns[i].value
        IN  ( /\ Len(InSliceTiming) > 1
              /\ ~(Has(metadata, "RepetitionTime") /\ InTA < InTR /\ InTA # InTR)
              /\ Has(metadata, "VolumeTiming") ) =>
                (Has(out, "AcquisitionDuration") /\ out["AcquisitionDuration"] = InTA)

\* C3 amended: with more than one slice onset, when RepetitionTime is absent and
\* VolumeTiming is present, AcquisitionDuration = TA.
C3_AcquisitionDurationIsTA ==
    \A i \in DOMAIN returns :
        LET out == returns[i].value
        IN  ( /\ Len(InSliceTiming) > 1
              /\ ~Has(metadata, "RepetitionTime")
              /\ Has(metadata, "VolumeTiming") ) =>
                (Has(out, "AcquisitionDuration") /\ out["AcquisitionDuration"] = InTA)

\* an unsorted SliceTiming with distinct spacing, no RepetitionTime, and an input
\* AcquisitionDuration that the derived one replaces
C3_Witness ==
    /\ returns # <<>>
    /\ Len(InSliceTiming) = 3
    /\ InSliceTiming[1] > InSliceTiming[2]
    /\ ~Has(metadata, "RepetitionTime")
    /\ Has(metadata, "VolumeTiming")
    /\ Has(metadata, "AcquisitionDuration")
    /\ Has(returns[1].value, "AcquisitionDuration")
    /\ returns[1].value["AcquisitionDuration"] # metadata["AcquisitionDuration"]

\* StartTime is min + frac * (max - min) rounded to 3 decimals: a whole number of
\* milliseconds at most half a millisecond away from the exact value
IsRoundedStart(t) ==
    LET exact == Smallest(InSliceTiming) * FracDen
                 + slice_time_ref * (Largest(InSliceTiming) - Smallest(InSliceTiming))
    IN  /\ t % TicksPerMilli = 0
        /\ 2 * Abs(t * FracDen - exact) <= FracDen * TicksPerMilli

\* C4 as stated: StartTime is in the output iff SliceTimingCorrected is true there, and
\* then it is the rounded reference time, which lies between min and max SliceTiming.
C4_AsStated ==
    \A i \in DOMAIN returns :
        LET out == returns[i].value
        IN  /\ Has(out, "SliceTimingCorrected")
            /\ Has(out, "StartTime") <=> (out["SliceTimingCorrected"] = TRUE)
            /\ Has(out, "StartTime") =>
                   /\ IsRoundedStart(out["StartTime"])
                   /\ Smallest(InSliceTiming) <= out["StartTime"]
                   /\ out["StartTime"] <= Largest(InSliceTiming)

\* C4 amended: StartTime is in the output iff SliceTimingCorrected is true there, and
\* then it is the rounded reference time, which lies within half a millisecond of the
\* interval from min to max SliceTiming (the rounding can leave the interval).
C4_StartTimeIffCorrected ==
    \A i \in DOMAIN returns :
        LET out == returns[i].value
        IN  /\ Has(out, "SliceTimingCorrected")
            /\ Has(out, "StartTime") <=> (out["SliceTimingCorrected"] = TRUE)
            /\ Has(out, "StartTime") =>
                   /\ IsRoundedStart(out["StartTime"])
                   /\ 2 * (Smallest(InSliceTiming) - out["StartTime"]) <= TicksPerMilli
                   /\ 2 * (out["StartTime"] - Largest(InSliceTiming)) <= TicksPerMilli

\* a StartTime strictly inside the slice onsets that the rounding moved up
C4_Witness ==
    /\ returns # <<>>
    /\ Has(returns[1].value, "StartTime")
    /\ 0 < slice_time_ref /\ slice_time_ref < FracDen
    /\ returns[1].value["StartTime"] * FracDen >
           Smallest(InSliceTiming) * FracDen
           + slice_time_ref * (Largest(InSliceTiming) - Smallest(InSliceTiming))
    /\ Smallest(InSliceTiming) < returns[1].value["StartTime"]
    /\ returns[1].value["StartTime"] < Largest(InSliceTiming)

\* C5 as stated: each of RepetitionTime, VolumeTiming, DelayTime and AcquisitionDuration
\* that the input has is in the output with exactly the input's value.
C5_AsStated ==
    \A i \in DOMAIN returns :
        LET out == returns[i].value
        IN  \A k \in {"RepetitionTime", "VolumeTiming", "DelayTime", "AcquisitionDuration"} :
                Has(metadata, k) => (Has(out, k) /\ out[k] = metadata[k])

\* C5 amended: each of the four keys that the input has is in the output; RepetitionTime
\* and VolumeTiming always with the input's value, DelayTime with the input's value
\* unless a DelayTime is derived from SliceTiming (more than one entry, RepetitionTime
\* present, TA below it and outside the tolerance), AcquisitionDuration with the input's
\* value unless one is derived (more than one entry, no RepetitionTime, VolumeTiming
\* present).
C5_CopiedUnlessDerived ==
    \A i \in DOMAIN returns :
        LET out == returns[i].value
        IN  /\ \A k \in {"RepetitionTime", "VolumeTiming"} :
                   Has(metadata, k) => (Has(out, k) /\ out[k] = metadata[k])
            /\ Has(metadata, "DelayTime") =>
                   /\ Has(out, "DelayTime")
                   /\ \/ out["DelayTime"] = metadata["DelayTime"]
                      \/ /\ Len(InSliceTiming) > 1
                         /\ Has(metadata, "RepetitionTime")
                         /\ InTA < InTR
                         /\ ~WithinTolerance(InTR, InTA)
            /\ Has(metadata, "AcquisitionDuration") =>
                   /\ Has(out, "AcquisitionDuration")
                   /\ \/ out["AcquisitionDuration"] = metadata["AcquisitionDuration"]
                      \/ /\ Len(InSliceTiming) > 1
                         /\ ~Has(metadata, "RepetitionTime")
                         /\ Has(metadata, "VolumeTiming")

\* all four keys on input with more than one slice onset: the input's DelayTime is
\* replaced, the other three are copied
C5_Witness ==
    /\ returns # <<>>
    /\ Len(InSliceTiming) > 1
    /\ \A k \in {"RepetitionTime", "VolumeTiming", "DelayTime", "AcquisitionDuration"} :
           Has(metadata, k) /\ Has(returns[1].value, k)
    /\ returns[1].value["VolumeTiming"] = metadata["VolumeTiming"]
    /\ returns[1].value["AcquisitionDuration"] = metadata["AcquisitionDuration"]
    /\ returns[1].value["DelayTime"] # metadata["DelayTime"]

OutputKeys == {"RepetitionTime", "VolumeTiming", "DelayTime", "AcquisitionDuration",
               "SliceTimingCorrected", "StartTime"}

\* C6: the output never has the key SliceTiming; its keys are always among
\* RepetitionTime, VolumeTiming, DelayTime, AcquisitionDuration, SliceTimingCorrected
\* and StartTime.
C6_NoSliceTimingInOutput ==
    \A i \in DOMAIN returns :
        /\ ~Has(returns[i].value, "SliceTiming")
        /\ DOMAIN returns[i].value \subseteq OutputKeys

\* an input with SliceTiming and a key outside the timing keys, all six keys returned
C6_Witness ==
    /\ returns # <<>>
    /\ Len(InSliceTiming) > 1
    /\ Has(metadata, "TaskName")
    /\ DOMAIN returns[1].value = OutputKeys

\* C7: with a SliceTiming of length 0 or 1 the call returns exactly what it returns for
\* the same metadata without the SliceTiming key: SliceTimingCorrected is false,
\* DelayTime and AcquisitionDuration are the input's, and there is no StartTime.
C7_ShortSliceTimingAsAbsent ==
    \A i \in DOMAIN returns :
        (Has(metadata, "SliceTiming") /\ Len(metadata["SliceTiming"]) <= 1) =>
            LET out == returns[i].value
            IN  /\ returns[i] = prepare_timing_parameters(DictDel(metadata, "SliceTiming"),
                                                          ignore, slice_time_ref)
                /\ Has(out, "SliceTimingCorrected")
                /\ out["SliceTimingCorrected"] = FALSE
                /\ PassedThrough(out, "DelayTime")
                /\ PassedThrough(out, "AcquisitionDuration")
                /\ ~Has(out, "StartTime")

\* a single slice onset, with correction not skipped
C7_Witness ==
    /\ returns # <<>>
    /\ Has(metadata, "SliceTiming")
    /\ Len(metadata["SliceTiming"]) = 1
    /\ Has(metadata, "RepetitionTime")
    /\ "slicetiming" \notin ignore

\* the skip set with 'slicetiming' put in, or taken out
Toggled(ign) == IF "slicetiming" \in ign THEN ign \ {"slicetiming"}
                ELSE ign \cup {"slicetiming"}

\* C8: the outputs with and without 'slicetiming' in the skip set agree on
\* RepetitionTime, VolumeTiming, DelayTime and AcquisitionDuration (so the derived
\* DelayTime / AcquisitionDuration is there when skipped); they differ only in
\* SliceTimingCorrected and in the presence of StartTime.
C8_SkipOnlyChangesFlagAndStart ==
    \A i \in DOMAIN returns :
        LET out   == returns[i].value
            other == prepare_timing_parameters(metadata, Toggled(ignore), slice_time_ref)
        IN  /\ other.raised = returns[i].raised
            /\ \A k \in (DOMAIN out) \cup (DOMAIN other.value) :
                   k \notin {"SliceTimingCorrected", "StartTime"} =>
                       /\ Has(out, k) /\ Has(other.value, k)
                       /\ out[k] = other.value[k]
            /\ Has(out, "SliceTimingCorrected") /\ Has(other.value, "SliceTimingCorrected")
            /\ ("slicetiming" \in ignore /\ Len(InSliceTiming) > 1) =>
                   /\ ~Has(out, "StartTime")
                   /\ Has(other.value, "StartTime")
                   /\ out["SliceTimingCorrected"] = FALSE
                   /\ other.value["SliceTimingCorrected"] = TRUE
                   /\ (Has(metadata, "RepetitionTime") /\ InTA < InTR
                          /\ ~WithinTolerance(InTR, InTA)) =>
                          (Has(out, "DelayTime") /\ out["DelayTime"] = InTR - InTA)

\* correction skipped, and a DelayTime derived all the same
C8_Witness ==
    /\ returns # <<>>
    /\ "slicetiming" \in ignore
    /\ Len(InSliceTiming) > 1
    /\ ~Has(metadata, "DelayTime")
    /\ Has(returns[1].value, "DelayTime")
    /\ ~Has(returns[1].value, "StartTime")

\* C9: every call returns a mapping without raising, whatever the subset of keys, the
\* length and order of SliceTiming, the skip set and the reference fraction; and calls
\* with the same input and configuration return the same mapping.
C9_TotalAndDeterministic ==
    /\ \A i \in DOMAIN returns : Returned(i)
    /\ \A i, j \in DOMAIN returns : returns[i] = returns[j]

\* two calls on an unsorted SliceTiming of the longest length
C9_Witness ==
    /\ Len(returns) = MaxCalls
    /\ Len(InSliceTiming) = MaxLen
    /\ InSliceTiming[1] > InSliceTiming[MaxLen]
    /\ Has(returns[MaxCalls].value, "StartTime")

(***************************************************************************)
(* A topological order exists iff peeling off, again and again, the nodes  *)
(* that no remaining node feeds leaves no node.                            *)
(***************************************************************************)
RECURSIVE Peels(_, _)
Peels(nodes, edges) ==
    LET fed  == {e[3] : e \in {x \in edges : x[1] \in nodes /\ x[3] \in nodes}}
        free == nodes \ fed
    IN  IF nodes = {} THEN TRUE
        ELSE IF free = {} THEN FALSE
        ELSE Peels(nodes \ free, edges)

HasTopologicalOrder(edges) == Peels(NodesOf(edges), edges)

\* C10: whatever the build-time flags, the graph of every workflow built (the nested
\* goodvoxels workflow of bold_fsLR_resampling_wf expanded) is acyclic: a topological
\* order of its nodes exists.
C10_EveryBuiltGraphAcyclic ==
    \A name \in DOMAIN built : HasTopologicalOrder(built[name].connections)

\* all six workflows built, with the goodvoxels workflow nested in the fsLR one and the
\* optional branches of the others present
C10_Witness ==
    /\ DOMAIN built = {"func_fit_reports_wf", "ds_bold_native_wf", "ds_volumes_wf",
                       "bold_surf_wf", "goodvoxels_bold_mask_wf", "bold_fsLR_resampling_wf"}
    /\ built["bold_fsLR_resampling_wf"].flags.estimate_goodvoxels
    /\ "goodvoxels_bold_mask_wf.goodvoxels_mask"
           \in NodesOf(built["bold_fsLR_resampling_wf"].connections)
    /\ built["func_fit_reports_wf"].flags.sdc_correction
    /\ built["ds_volumes_wf"].flags.multiecho
    /\ built["bold_surf_wf"].flags.medial_surface_nan
    /\ built["ds_bold_native_wf"].flags.multiecho
    /\ built["ds_bold_native_wf"].flags.bold_output
    /\ built["ds_bold_native_wf"].flags.echo_output

(***************************************************************************)
(* The connections of a graph that arrive at input port p of node n.       *)
(***************************************************************************)
Incoming(edges, n, p) == {e \in edges : e[3] = n /\ e[4] = p}

\* C11: whatever the build-time flags, in the graph of every workflow built no two
\* connections target the same (node, input port): every destination input port
\* receives at most one connection.
C11_OneConnectionPerInputPort ==
    \A name \in DOMAIN built :
        \A e1, e2 \in built[name].connections :
            (e1[3] = e2[3] /\ e1[4] = e2[4]) => e1 = e2

\* the ports the claim names, each fed by exactly one connection: update_metadata.in_file
\* behind medial_nans, the third resampler / datasink pair, and volume_roi fed by the
\* nested goodvoxels workflow
C11_Witness ==
    /\ {"bold_surf_wf", "ds_volumes_wf", "bold_fsLR_resampling_wf"} \subseteq DOMAIN built
    /\ built["bold_surf_wf"].flags.medial_surface_nan
    /\ Cardinality(Incoming(built["bold_surf_wf"].connections,
                            "update_metadata", "in_file")) = 1
    /\ built["ds_volumes_wf"].flags.multiecho
    /\ Cardinality(Incoming(built["ds_volumes_wf"].connections,
                            "ds_t2star_std", "in_file")) = 1
    /\ Cardinality(Incoming(built["ds_volumes_wf"].connections,
                            "resample_t2star", "transforms")) = 1
    /\ built["bold_fsLR_resampling_wf"].flags.estimate_goodvoxels
    /\ Cardinality(Incoming(built["bold_fsLR_resampling_wf"].connections,
                            "volume_to_surface", "volume_roi")) = 1

(***************************************************************************)
(* The workflow a builder returns for the arguments fl of a built          *)
(* workflow, and the same with boolean flag f set to v.                    *)
(***************************************************************************)
BuiltWith(name, fl) ==
    CASE name = "func_fit_reports_wf" -> func_fit_reports_wf(fl.sdc_correction)
      [] name = "ds_bold_native_wf" ->
             ds_bold_native_wf(fl.multiecho, fl.bold_output, fl.echo_output,
                               fl.all_metadata)
      [] name = "ds_volumes_wf" -> ds_volumes_wf(fl.multiecho)
      [] name = "bold_surf_wf" ->
             bold_surf_wf(fl.mem_gb, fl.surface_spaces, fl.medial_surface_nan)
      [] name = "goodvoxels_bold_mask_wf" -> goodvoxels_bold_mask_wf(fl.mem_gb)
      [] name = "bold_fsLR_resampling_wf" ->
             bold_fsLR_resampling_wf(fl.estimate_goodvoxels, fl.omp_nthreads, fl.mem_gb)

FeatureFlags(name) ==
    CASE name = "func_fit_reports_wf" -> {"sdc_correction"}
      [] name = "ds_bold_native_wf" -> {"multiecho", "bold_output", "echo_output"}
      [] name = "ds_volumes_wf" -> {"multiecho"}
      [] name = "bold_surf_wf" -> {"medial_surface_nan"}
      [] name = "goodvoxels_bold_mask_wf" -> {}
      [] name = "bold_fsLR_resampling_wf" -> {"estimate_goodvoxels"}

FlagSet(name, f, v) == BuiltWith(name, [built[name].flags EXCEPT ![f] = v])

\* the nodes that only one of the two graphs has: the nodes of the flag's branch
BranchNodes(on, off) ==
    ((DOMAIN on.nodes) \ (DOMAIN off.nodes)) \cup ((DOMAIN off.nodes) \ (DOMAIN on.nodes))

\* the connection of the else branch of medial_surface_nan
ElseBranch(name, f) ==
    IF name = "bold_surf_wf" /\ f = "medial_surface_nan"
    THEN {<<"sampler", "out_file", "update_metadata", "in_file">>}
    ELSE {}

\* the edges of the two graphs differ only in edges of the flag's branch: edges at a
\* node of the branch, and the connection of the else branch
OnlyBranchEdgesDiffer(name, f, on, off) ==
    \A e \in (on.connections \ off.connections) \cup (off.connections \ on.connections) :
        \/ e[1] \in BranchNodes(on, off)
        \/ e[3] \in BranchNodes(on, off)
        \/ e \in ElseBranch(name, f)

\* C12 as stated: for each builder and each of its boolean flags, the graphs built with
\* the flag on and off, all other arguments equal, differ only in the nodes and edges of
\* the flag's branch: every other edge is in both, and every node that both have has the
\* same static configuration in both.
C12_AsStated ==
    \A name \in DOMAIN built : \A f \in FeatureFlags(name) :
        LET on  == FlagSet(name, f, TRUE)
            off == FlagSet(name, f, FALSE)
        IN  /\ OnlyBranchEdgesDiffer(name, f, on, off)
            /\ \A n \in (DOMAIN on.nodes) \cap (DOMAIN off.nodes) : on.nodes[n] = off.nodes[n]

\* C12 amended: the same, except that the static SkullStripped setting of the sink
\* ds_bold follows multiecho: it is the one setting of a node outside the branch that
\* the flag changes.
C12_OnlyBranchDiffers ==
    \A name \in DOMAIN built : \A f \in FeatureFlags(name) :
        LET on  == FlagSet(name, f, TRUE)
            off == FlagSet(name, f, FALSE)
        IN  /\ OnlyBranchEdgesDiffer(name, f, on, off)
            /\ \A n \in (DOMAIN on.nodes) \cap (DOMAIN off.nodes) :
                   IF n = "ds_bold" /\ f = "multiecho"
                   THEN /\ DOMAIN on.nodes[n] = DOMAIN off.nodes[n]
                        /\ \A k \in DOMAIN on.nodes[n] :
                               k # "SkullStripped" => on.nodes[n][k] = off.nodes[n][k]
                        /\ on.nodes[n]["SkullStripped"] = TRUE
                        /\ off.nodes[n]["SkullStripped"] = FALSE
                   ELSE on.nodes[n] = off.nodes[n]

\* every flag's branch built, and ds_bold in both multi-echo workflows
C12_Witness ==
    /\ DOMAIN built = {"func_fit_reports_wf", "ds_bold_native_wf", "ds_volumes_wf",
                       "bold_surf_wf", "goodvoxels_bold_mask_wf", "bold_fsLR_resampling_wf"}
    /\ "sdc_report" \in DOMAIN built["func_fit_reports_wf"].nodes
    /\ "ds_bold" \in DOMAIN built["ds_bold_native_wf"].nodes
    /\ built["ds_bold_native_wf"].nodes["ds_bold"]["SkullStripped"] = TRUE
    /\ "ds_bold_echos" \in DOMAIN built["ds_bold_native_wf"].nodes
    /\ built["ds_volumes_wf"].nodes["ds_bold"]["SkullStripped"] = TRUE
    /\ "medial_nans" \in DOMAIN built["bold_surf_wf"].nodes
    /\ "goodvoxels_bold_mask_wf.cov_volume" \in DOMAIN built["bold_fsLR_resampling_wf"].nodes

(***************************************************************************)
(* Running a built workflow.  The engine that runs it (imported as pe and  *)
(* niu) is not part of these sources; what it does with the graph a        *)
(* builder returns is taken from its documented behaviour: iteration       *)
(* sources fan the nodes that depend on them out, map nodes fan out over   *)
(* their iterfields, joins collect in iterable order, a node is eligible   *)
(* when every connected input is there, dispatch is admitted against a     *)
(* memory and a thread budget, a failure skips the transitive dependents.  *)
(***************************************************************************)
\* the nodes that carry iterables
IterSources(G) == {n \in DOMAIN G.nodes : Has(G.nodes[n], "iterables")}

\* the values of the iterable of source s, in their declared order
IterableOf(G, s) == G.nodes[s].iterables[1][2]

\* the join nodes whose joinsource is s
JoinsOf(G, s) ==
    {n \in DOMAIN G.nodes : Has(G.nodes[n], "joinsource") /\ G.nodes[n].joinsource = s}

Successors(G, n) == {e[3] : e \in {c \in G.connections : c[1] = n}}

RECURSIVE Reach(_, _, _, _)
Reach(G, stop, frontier, seen) ==
    IF frontier = {} THEN seen
    ELSE LET next == UNION {Successors(G, n) : n \in frontier} \ (seen \cup stop)
         IN Reach(G, stop, next, seen \cup next)

\* every node that depends on source s, up to and not including a later join on s
Dependents(G, s) == Reach(G, JoinsOf(G, s), {s}, {})

SourceOf(G, n) == {s \in IterSources(G) : n \in Dependents(G, s)}

\* the copies of node n: one per iterable value if it depends on an iteration
\* source, the single copy 0 otherwise
Copies(G, n) ==
    IF SourceOf(G, n) = {} THEN {0}
    ELSE 1..Len(IterableOf(G, CHOOSE s \in SourceOf(G, n) : TRUE))

Instances(G) == UNION {{<<n, i>> : i \in Copies(G, n)} : n \in DOMAIN G.nodes}

\* the instances of e's source that feed copy i of e's destination: the same
\* copy inside an iteration, every copy into a join, the single one otherwise
Feeders(G, e, i) ==
    IF Copies(G, e[1]) = {0} THEN {<<e[1], 0>>}
    ELSE IF i = 0 THEN {<<e[1], j>> : j \in Copies(G, e[1])}
    ELSE {<<e[1], i>>}

UpstreamOf(G, x) ==
    UNION {Feeders(G, e, x[2]) : e \in {c \in G.connections : c[3] = x[1]}}

\* the workflow being run
G == built[run.name]

(***************************************************************************)
(* Values are sequences of items; an item names what produced it:          *)
(* <<node, copy, port, replica>>, or <<"", 0, literal, 0>> for a literal   *)
(* of the graph and <<"", 0, key, k>> for element k of a list given at     *)
(* construction.                                                           *)
(***************************************************************************)
Scalar(t) == [list |-> FALSE, items |-> <<t>>]

List(ts) == [list |-> TRUE, items |-> ts]

Literal(s) == <<"", 0, s, 0>>

IterFields(n) == IF Has(G.nodes[n], "iterfield") THEN Range(G.nodes[n].iterfield) ELSE {}

RECURSIVE In(_, _)
RECURSIVE Out(_, _)
\* the value at input port q of instance x: the element of the iterable for its
\* copy, the outputs of all the copies that a join closes over, in the order of
\* the iterable, or the output of the one instance that feeds it; run.lens gives
\* the lengths of the lists handed to the workflow
In(x, q) ==
    LET es == Incoming(G.connections, x[1], q)
    IN  IF es # {}
        THEN LET e == CHOOSE c \in es : TRUE
                 fs == {u \in run.up[x] : u[1] = e[1]}
             IN  IF Has(G.nodes[e[1]], "iterables")
                 THEN Scalar(Literal(IterableOf(G, e[1])[x[2]]))
                 ELSE IF Has(G.nodes[x[1]], "joinsource") /\ \E u \in fs : u[2] # 0
                 THEN List([j \in 1..Cardinality(fs) |-> Out(<<e[1], j>>, e[2]).items[1]])
                 ELSE Out(CHOOSE f \in fs : TRUE, e[2])
        ELSE IF q \in IterFields(x[1]) /\ Has(G.nodes[x[1]], q)
        THEN List([k \in 1..Len(G.nodes[x[1]][q]) |-> <<"", 0, q, k>>])
        ELSE IF Has(G.nodes[x[1]], q) THEN Scalar(<<"", 0, q, 0>>)
        ELSE IF q \in DOMAIN run.lens
        THEN List([k \in 1..run.lens[q] |-> <<x[1], x[2], q, k>>])
        ELSE Scalar(<<x[1], x[2], q, 0>>)

\* the number of replicas of map node instance x: the length of its first iterfield
Width(x) == Len(In(x, G.nodes[x[1]].iterfield[1]).items)

\* the lengths of all its iterfields
Widths(x) == {Len(In(x, f).items) : f \in IterFields(x[1])}

\* the value at output port p of instance x: an identity interface hands its
\* input on, a map node collects one item per replica it has run
Out(x, p) ==
    IF G.nodes[x[1]].interface = "IdentityInterface" THEN In(x, p)
    ELSE IF G.nodes[x[1]].kind = "MapNode"
    THEN List([r \in DOMAIN run.replicas[x] |-> <<x[1], x[2], p, r>>])
    ELSE Scalar(<<x[1], x[2], p, 0>>)

\* what replica r of map node instance x gets at port q
ReplicaIn(x, r, q) ==
    IF q \in IterFields(x[1]) THEN Scalar(In(x, q).items[r])
    ELSE In(x, q)

(***************************************************************************)
(* The run: the status of every instance, the replicas of every map node,  *)
(* the error recorded for a failure, and the order in which the instances  *)
(* that feed a join completed.                                             *)
(***************************************************************************)

IsMap(n) == G.nodes[n].kind = "MapNode"

\* run_without_submitting=True
IsInline(n) == Has(G.nodes[n], "run_without_submitting") /\ G.nodes[n].run_without_submitting

\* the declared hints: a node that declares no memory asks for none, a node
\* that declares no thread count occupies one thread
MemOf(n) == IF Has(G.nodes[n], "mem_gb") THEN G.nodes[n].mem_gb ELSE 0

ProcsOf(n) == IF Has(G.nodes[n], "n_procs") THEN G.nodes[n].n_procs ELSE 1

\* what the scheduler has dispatched and has not completed: plain nodes and
\* replicas of map nodes, as <<instance, replica>>
RunningUnits ==
    {<<x, 0>> : x \in {y \in DOMAIN run.status : run.status[y] = "running" /\ ~IsMap(y[1])}}
    \cup UNION {{<<x, r>> : r \in {k \in DOMAIN run.replicas[x] : run.replicas[x][k] = "running"}} :
                   x \in DOMAIN run.replicas}

RECURSIVE MemSum(_)
MemSum(units) ==
    IF units = {} THEN 0
    ELSE LET u == CHOOSE v \in units : TRUE IN MemOf(u[1][1]) + MemSum(units \ {u})

RECURSIVE ProcsSum(_)
ProcsSum(units) ==
    IF units = {} THEN 0
    ELSE LET u == CHOOSE v \in units : TRUE IN ProcsOf(u[1][1]) + ProcsSum(units \ {u})

\* admission control: the declared hints fit what is left of the budget
Fits(n) ==
    /\ MemSum(RunningUnits) + MemOf(n) <= run.mem_budget
    /\ ProcsSum(RunningUnits) + ProcsOf(n) <= run.procs_budget

\* every connected input has been produced
Eligible(x) == run.status[x] = "waiting" /\ \A u \in run.up[x] : run.status[u] = "done"

FeedsJoin(x) == \E y \in DOMAIN run.status : Has(G.nodes[y[1]], "joinsource") /\ x \in run.up[y]

Start(Gr, name, lens, mem_budget, procs_budget) ==
    [name |-> name, lens |-> lens, mem_budget |-> mem_budget, procs_budget |-> procs_budget,
     status |-> [x \in Instances(Gr) |-> "waiting"],
     replicas |-> [x \in {y \in Instances(Gr) : Gr.nodes[y[1]].kind = "MapNode"} |-> <<>>],
     error |-> [x \in Instances(Gr) |-> ""],
     order |-> <<>>,
     up |-> [x \in Instances(Gr) |-> UpstreamOf(Gr, x)]]

Running == run.name # ""

RECURSIVE Downstream(_, _)
\* the instances that transitively depend on an instance of the frontier
Downstream(frontier, seen) ==
    IF frontier = {} THEN seen
    ELSE LET next == {y \in DOMAIN run.status : run.up[y] \cap frontier # {}} \ seen
         IN Downstream(next, seen \cup next)

\* the failure of x is recorded and everything that depends on it is marked as
\* not run
Failed(x, error) ==
    LET dependents == Downstream({x}, {})
    IN  [run EXCEPT !.status = [y \in DOMAIN run.status |->
                                   IF y = x THEN "failed"
                                   ELSE IF y \in dependents THEN "skipped"
                                   ELSE run.status[y]],
                    !.error[x] = error]

\* a run_without_submitting node executes inline, with no admission check
RunInline ==
    /\ Running
    /\ \E x \in DOMAIN run.status :
        /\ Eligible(x)
        /\ IsInline(x[1])
        /\ IsMap(x[1]) => Cardinality(Widths(x)) <= 1
        /\ run' = [run EXCEPT !.status[x] = "done",
                              !.replicas = IF IsMap(x[1])
                                           THEN [run.replicas EXCEPT ![x] =
                                                    [r \in 1..Width(x) |-> "done"]]
                                           ELSE run.replicas]
    /\ UNCHANGED <<metadata, ignore, slice_time_ref, returns, built>>

\* the scheduler dispatches an eligible node whose hints fit the budget
Dispatch ==
    /\ Running
    /\ \E x \in DOMAIN run.status :
        /\ Eligible(x)
        /\ ~IsInline(x[1])
        /\ ~IsMap(x[1])
        /\ Fits(x[1])
        /\ run' = [run EXCEPT !.status[x] = "running"]
    /\ UNCHANGED <<metadata, ignore, slice_time_ref, returns, built>>

\* a dispatched node completes
Finish ==
    /\ Running
    /\ \E x \in DOMAIN run.status :
        /\ run.status[x] = "running"
        /\ ~IsMap(x[1])
        /\ run' = [run EXCEPT !.status[x] = "done",
                              !.order = IF FeedsJoin(x) THEN Append(run.order, x) ELSE run.order]
    /\ UNCHANGED <<metadata, ignore, slice_time_ref, returns, built>>

\* an eligible map node whose iterfields have one length gets one replica per index
Expand ==
    /\ Running
    /\ \E x \in DOMAIN run.status :
        /\ Eligible(x)
        /\ ~IsInline(x[1])
        /\ IsMap(x[1])
        /\ Cardinality(Widths(x)) <= 1
        /\ run' = [run EXCEPT !.status[x] = IF Width(x) = 0 THEN "done" ELSE "running",
                              !.replicas[x] = [r \in 1..Width(x) |-> "waiting"]]
    /\ UNCHANGED <<metadata, ignore, slice_time_ref, returns, built>>

\* an eligible map node whose iterfields differ in length fails before any replica;
\* what depends on it is not run
IterationLengthError ==
    /\ Running
    /\ \E x \in DOMAIN run.status :
        /\ Eligible(x)
        /\ IsMap(x[1])
        /\ Cardinality(Widths(x)) > 1
        /\ run' = Failed(x, "IterationLengthError")
    /\ UNCHANGED <<metadata, ignore, slice_time_ref, returns, built>>

\* the scheduler dispatches a replica whose hints fit the budget
DispatchReplica ==
    /\ Running
    /\ \E x \in DOMAIN run.replicas :
        /\ run.status[x] = "running"
        /\ \E r \in DOMAIN run.replicas[x] :
            /\ run.replicas[x][r] = "waiting"
            /\ Fits(x[1])
            /\ run' = [run EXCEPT !.replicas[x][r] = "running"]
    /\ UNCHANGED <<metadata, ignore, slice_time_ref, returns, built>>

\* a replica completes; the map node is complete with its last replica
FinishReplica ==
    /\ Running
    /\ \E x \in DOMAIN run.replicas :
        \E r \in DOMAIN run.replicas[x] :
            /\ run.replicas[x][r] = "running"
            /\ LET after == [run.replicas[x] EXCEPT ![r] = "done"]
                   all == \A k \in DOMAIN after : after[k] = "done"
               IN run' = [run EXCEPT !.replicas[x] = after,
                                     !.status[x] = IF all THEN "done" ELSE "running",
                                     !.order = IF all /\ FeedsJoin(x) THEN Append(run.order, x)
                                               ELSE run.order]
    /\ UNCHANGED <<metadata, ignore, slice_time_ref, returns, built>>

\* one node of the run is forced to fail: a dispatched one while it runs, an
\* inline one when it is executed (a map node only if it can be expanded)
ExecutionFailure ==
    /\ Running
    /\ \A y \in DOMAIN run.status : run.status[y] # "failed"
    /\ \E x \in DOMAIN run.status :
        /\ \/ run.status[x] = "running" /\ ~IsMap(x[1])
           \/ /\ Eligible(x) /\ IsInline(x[1])
              /\ IsMap(x[1]) => Cardinality(Widths(x)) <= 1
        /\ run' = Failed(x, "ExecutionFailure")
    /\ UNCHANGED <<metadata, ignore, slice_time_ref, returns, built>>

\* the budgets of a run: memory for one node of the largest declared size, and two
\* threads
MemBudgets == {3 * OneGb}

ProcsBudgets == {2}

\* the lengths of the lists handed to init_ds_bold_native_wf's inputnode
NativeLens == [{"source_files", "bold_echos"} -> 0..MaxEchos]

NoLens == [p \in {} |-> 0]

\* the flags of the runs of init_bold_fsLR_resampling_wf: every thread count
\* without the nested goodvoxels workflow, which declares none, and one with it
FsLRFlags ==
    {<<FALSE, omp_nthreads, mem_gb>> : omp_nthreads \in 1..MaxThreads, mem_gb \in MemGbs}
    \cup {<<TRUE, 1, mem_gb>> : mem_gb \in MemGbs}

Scenarios ==
    {<<"func_fit_reports_wf", func_fit_reports_wf(sdc), NoLens>> : sdc \in BOOLEAN}
    \cup {<<"ds_bold_native_wf",
            ds_bold_native_wf(f[1], f[2], f[3], AllMetadata(f[4])), lens>> :
             f \in BOOLEAN \X BOOLEAN \X BOOLEAN \X (1..MaxEchos), lens \in NativeLens}
    \cup {<<"ds_volumes_wf", ds_volumes_wf(multiecho), NoLens>> : multiecho \in BOOLEAN}
    \cup {<<"bold_surf_wf", bold_surf_wf(f[1], f[2], f[3]), NoLens>> :
             f \in MemGbs \X SurfaceSpaces \X BOOLEAN}
    \cup {<<"goodvoxels_bold_mask_wf", goodvoxels_bold_mask_wf(mem_gb), NoLens>> :
             mem_gb \in MemGbs}
    \cup {<<"bold_fsLR_resampling_wf", bold_fsLR_resampling_wf(f[1], f[2], f[3]), NoLens>> :
             f \in FsLRFlags}

InitRun ==
    /\ metadata \in {m \in BuildMetadatas : Has(m, "SliceTiming")}
    /\ ignore = {}
    /\ slice_time_ref = FracDen
    /\ returns = <<>>
    /\ \E s \in Scenarios, mem_budget \in MemBudgets, procs_budget \in ProcsBudgets :
        /\ built = s[1] :> s[2]
        /\ run = Start(s[2], s[1], s[3], mem_budget, procs_budget)

NextRun ==
    \/ RunInline
    \/ Dispatch
    \/ Finish
    \/ Expand
    \/ IterationLengthError
    \/ DispatchReplica
    \/ FinishReplica
    \/ ExecutionFailure

SpecRun == InitRun /\ [][NextRun]_vars

\* the steps of the scheduler: an eligible node is executed, refused or dispatched,
\* a dispatched node or replica completes
SchedulerStep ==
    \/ RunInline
    \/ Dispatch
    \/ Finish
    \/ Expand
    \/ IterationLengthError
    \/ DispatchReplica
    \/ FinishReplica

\* the runs followed to their end: every workflow, init_bold_surf_wf over one
\* surface space
FairScenarios ==
    {s \in Scenarios : s[1] = "bold_surf_wf" => Len(s[2].flags.surface_spaces) = 1}

InitRunFair ==
    /\ metadata \in {m \in BuildMetadatas : Has(m, "SliceTiming")}
    /\ ignore = {}
    /\ slice_time_ref = FracDen
    /\ returns = <<>>
    /\ \E s \in FairScenarios, mem_budget \in MemBudgets, procs_budget \in ProcsBudgets :
        /\ built = s[1] :> s[2]
        /\ run = Start(s[2], s[1], s[3], mem_budget, procs_budget)

\* a run under a scheduler that goes on as long as a step is possible; nothing
\* obliges a node to fail
SpecRunFair == InitRunFair /\ [][NextRun]_vars /\ WF_vars(SchedulerStep)

(***************************************************************************)
(* Claims about a run                                                      *)
(***************************************************************************)
CopiesIn(n) == {x \in DOMAIN run.status : x[1] = n}

\* the nodes of init_bold_surf_wf that depend on itersource
SurfIterated == {"targets", "sampler", "medial_nans", "update_metadata", "ds_bold_surfs"} \cap DOMAIN G.nodes

SurfShared == {"inputnode", "get_fsnative", "itk2lta"}

\* C13: in a run of init_bold_surf_wf with K surface spaces, targets, sampler,
\* medial_nans (when present), update_metadata and ds_bold_surfs each have exactly K
\* instances, instance i with element i of surface_spaces as its space (targets and
\* ds_bold_surfs directly, the others through instance i of what feeds them);
\* inputnode, get_fsnative and itk2lta have one instance each, and every port they
\* feed gets the same value in all K instances.
C13_OneInstancePerSurfaceSpace ==
    (Running /\ run.name = "bold_surf_wf") =>
        LET spaces == G.flags.surface_spaces
            K == Len(spaces)
        IN  /\ \A n \in SurfIterated :
                /\ CopiesIn(n) = {<<n, i>> : i \in 1..K}
                /\ \A i \in 1..K :
                    \A e \in {c \in G.connections : c[3] = n} :
                        \/ /\ e[1] = "itersource"
                           /\ In(<<n, i>>, e[4]) = Scalar(Literal(spaces[i]))
                        \/ /\ e[1] \in SurfIterated
                           /\ \A t \in Range(In(<<n, i>>, e[4]).items) :
                                 t[1] = e[1] /\ t[2] = i
                           /\ <<e[1], i>> \in run.up[<<n, i>>]
                        \/ e[1] \in SurfShared
            /\ \A n \in SurfShared :
                /\ CopiesIn(n) = {<<n, 0>>}
                /\ \A e \in {c \in G.connections : c[1] = n /\ c[3] \in SurfIterated} :
                    \A i \in 1..K :
                        /\ In(<<e[3], i>>, e[4]) = In(<<e[3], 1>>, e[4])
                        /\ run.up[<<e[3], i>>] \cap CopiesIn(n) = {<<n, 0>>}

\* a run over two surface spaces with the medial branch in which both copies of
\* ds_bold_surfs have been executed
C13_Witness ==
    /\ Running /\ run.name = "bold_surf_wf"
    /\ Len(G.flags.surface_spaces) = 2
    /\ "medial_nans" \in DOMAIN G.nodes
    /\ run.status[<<"ds_bold_surfs", 1>>] = "done"
    /\ run.status[<<"ds_bold_surfs", 2>>] = "done"

\* the map nodes of the builders and the iterfields they are declared over
MapIterfields ==
    "sampler" :> {"hemi"}
    @@ "update_metadata" :> {"in_file"}
    @@ "medial_nans" :> {"in_file"}
    @@ "ds_bold_surfs" :> {"in_file", "hemi"}
    @@ "ds_bold_echos" :> {"source_file", "in_file", "meta_dict"}

\* the input ports of node n that carry a value: connected, or set at construction
\* as an iterfield
InputPorts(n) == {c[4] : c \in {e \in G.connections : e[3] = n}} \cup IterFields(n)

\* the map node instances that have been expanded into replicas
Expanded == {x \in DOMAIN run.replicas : run.status[x] \in {"running", "done"}}

\* C14: every map node is one of sampler (over hemi), update_metadata and medial_nans
\* (over in_file), ds_bold_surfs (over in_file and hemi), ds_bold_echos (over
\* source_file, in_file and meta_dict); once it has been expanded its iterfields have
\* one length N, it has exactly N replicas, replica i gets element i of each iterfield
\* sequence and every other input as the node got it.
C14_OneReplicaPerIndex ==
    Running =>
        /\ \A x \in DOMAIN run.replicas :
            x[1] \in DOMAIN MapIterfields /\ IterFields(x[1]) = MapIterfields[x[1]]
        /\ \A x \in Expanded :
            LET N == Width(x)
                ins == [q \in InputPorts(x[1]) |-> In(x, q)]
            IN  /\ \A f \in MapIterfields[x[1]] : Len(ins[f].items) = N
                /\ Widths(x) = {N}
                /\ DOMAIN run.replicas[x] = 1..N
                /\ \A r \in 1..N :
                    /\ \A f \in MapIterfields[x[1]] :
                        ReplicaIn(x, r, f) = Scalar(ins[f].items[r])
                    /\ \A q \in InputPorts(x[1]) \ MapIterfields[x[1]] :
                        ReplicaIn(x, r, q) = ins[q]

\* ds_bold_echos has run over two echos, and a copy of ds_bold_surfs over two
\* hemispheres, in some run
C14_Witness ==
    /\ Running
    /\ \/ /\ run.name = "ds_bold_native_wf"
          /\ <<"ds_bold_echos", 0>> \in DOMAIN run.replicas
          /\ run.replicas[<<"ds_bold_echos", 0>>] = <<"done", "done">>
          /\ run.lens["source_files"] = 2
       \/ /\ run.name = "bold_surf_wf"
          /\ run.replicas[<<"ds_bold_surfs", 1>>] = <<"done", "done">>
          /\ run.replicas[<<"sampler", 1>>] = <<"done", "done">>

\* every instance has completed, failed or been skipped
Ended == \A x \in DOMAIN run.status : run.status[x] \in {"done", "failed", "skipped"}

\* map node instance x never gets a replica; if it fails it is with
\* IterationLengthError, and at the end of the run it has failed unless a failure
\* upstream had it skipped
RefusedForLength(x) ==
    /\ run.replicas[x] = <<>>
    /\ run.status[x] \in {"waiting", "failed", "skipped"}
    /\ run.status[x] = "failed" => run.error[x] = "IterationLengthError"
    /\ Ended => run.status[x] \in {"failed", "skipped"}
    /\ run.status[x] = "skipped" => \E u \in DOMAIN run.status : run.status[u] = "failed"

\* C15: when the source_files or the bold_echos handed to a run of
\* init_ds_bold_native_wf differ in length from all_metadata, ds_bold_echos fails with
\* IterationLengthError and none of its replicas runs; the same holds for a copy of
\* ds_bold_surfs whose in_file is not of length 2.
C15_LengthMismatchFails ==
    Running =>
        /\ (/\ <<"ds_bold_echos", 0>> \in DOMAIN run.replicas
            /\ \/ run.lens["source_files"] # Len(G.flags.all_metadata)
               \/ run.lens["bold_echos"] # Len(G.flags.all_metadata))
           => RefusedForLength(<<"ds_bold_echos", 0>>)
        /\ \A x \in CopiesIn("ds_bold_surfs") :
            (/\ \A u \in run.up[x] : run.status[u] = "done"
             /\ Len(In(x, "in_file").items) # 2)
            => RefusedForLength(x)

\* ds_bold_echos has failed with IterationLengthError over two echos with one source
\* file, without a replica
C15_Witness ==
    /\ Running /\ run.name = "ds_bold_native_wf"
    /\ <<"ds_bold_echos", 0>> \in DOMAIN run.replicas
    /\ Len(G.flags.all_metadata) = 2
    /\ run.lens["source_files"] = 1
    /\ run.lens["bold_echos"] = 2
    /\ run.status[<<"ds_bold_echos", 0>>] = "failed"
    /\ run.error[<<"ds_bold_echos", 0>>] = "IterationLengthError"
    /\ run.replicas[<<"ds_bold_echos", 0>>] = <<>>
    /\ Ended

\* the scheduler has started instance x (its inputs have been delivered)
Started(x) == run.status[x] \in {"running", "done", "failed"}

\* the output of mask_fsLR in the branch of hemisphere h, if hemisource's copy i of
\* the branch is the one for h
MaskOf(h, i) ==
    IF In(<<"select_surfaces", i>>, "key") = Scalar(Literal(h))
    THEN <<"mask_fsLR", i, "out_file", 0>>
    ELSE <<"mask_fsLR", 0, "out_file", 0>>

\* C16: in a run of init_bold_fsLR_resampling_wf, whatever the order in which the two
\* branches complete, the value delivered to joinnode.bold_fsLR, and forwarded to
\* outputnode.bold_fsLR, has exactly two elements: the output of mask_fsLR in the L
\* branch, then the one in the R branch.
C16_JoinInIterableOrder ==
    (Running /\ run.name = "bold_fsLR_resampling_wf") =>
        \A x \in CopiesIn("joinnode") \cup CopiesIn("outputnode") :
            Started(x) =>
                In(x, "bold_fsLR") = List(<<MaskOf("L", 1), MaskOf("R", 2)>>)

\* the R branch completed before the L branch, and outputnode has got the value
C16_Witness ==
    /\ Running /\ run.name = "bold_fsLR_resampling_wf"
    /\ run.order = <<<<"mask_fsLR", 2>>, <<"mask_fsLR", 1>>>>
    /\ run.status[<<"joinnode", 0>>] = "done"
    /\ run.status[<<"outputnode", 0>>] = "done"

\* C17: in a run of init_bold_fsLR_resampling_wf, joinnode is not started before both
\* the L and the R copy of mask_fsLR have completed, and outputnode (which produces
\* outputnode.bold_fsLR) is not started before joinnode has completed.
C17_JoinWaitsForBothBranches ==
    (Running /\ run.name = "bold_fsLR_resampling_wf") =>
        /\ \A x \in CopiesIn("joinnode") :
            Started(x) =>
                \A i \in 1..2 :
                    /\ <<"mask_fsLR", i>> \in DOMAIN run.status
                    /\ run.status[<<"mask_fsLR", i>>] = "done"
        /\ \A x \in CopiesIn("outputnode") :
            Started(x) => \A y \in CopiesIn("joinnode") : run.status[y] = "done"
        /\ CopiesIn("mask_fsLR") = {<<"mask_fsLR", 1>>, <<"mask_fsLR", 2>>}

\* joinnode has been dispatched, after both copies of mask_fsLR, and outputnode is
\* still waiting for it
C17_Witness ==
    /\ Running /\ run.name = "bold_fsLR_resampling_wf"
    /\ run.status[<<"joinnode", 0>>] = "running"
    /\ run.status[<<"mask_fsLR", 1>>] = "done"
    /\ run.status[<<"mask_fsLR", 2>>] = "done"
    /\ run.status[<<"outputnode", 0>>] = "waiting"

\* instance x has not been started unless every instance of node n is done
After(x, n) ==
    Started(x) => (CopiesIn(n) # {} /\ \A u \in CopiesIn(n) : run.status[u] = "done")

\* C18: in a run of any built workflow, an instance is started only after every
\* instance that feeds one of its connected input ports has completed successfully;
\* so goodvoxels_mask is never started before goodvoxels_thr and
\* merge_goodvoxels_operands are done, nor cov_volume before stdev_volume and
\* mean_volume (alone or nested in init_bold_fsLR_resampling_wf).
C18_StartsAfterUpstream ==
    Running =>
        /\ \A x \in DOMAIN run.status :
            (Started(x) \/ (x \in DOMAIN run.replicas /\ run.replicas[x] # <<>>)) =>
                /\ \A u \in run.up[x] : run.status[u] = "done"
                /\ \A e \in {c \in G.connections : c[3] = x[1]} :
                    \E u \in run.up[x] : u[1] = e[1]
        /\ \A w \in {"", "goodvoxels_bold_mask_wf."} :
            /\ \A x \in CopiesIn(w \o "goodvoxels_mask") :
                /\ After(x, w \o "goodvoxels_thr")
                /\ After(x, w \o "merge_goodvoxels_operands")
            /\ \A x \in CopiesIn(w \o "cov_volume") :
                /\ After(x, w \o "stdev_volume")
                /\ After(x, w \o "mean_volume")

\* goodvoxels_mask is running while goodvoxels_ribbon_mask waits for it, and, in
\* another run, the nested cov_volume has been started
C18_Witness ==
    /\ Running
    /\ \/ /\ run.name = "goodvoxels_bold_mask_wf"
          /\ run.status[<<"goodvoxels_mask", 0>>] = "running"
          /\ run.status[<<"goodvoxels_thr", 0>>] = "done"
          /\ run.status[<<"merge_goodvoxels_operands", 0>>] = "done"
          /\ run.status[<<"goodvoxels_ribbon_mask", 0>>] = "waiting"
          /\ run.status[<<"cov_volume", 0>>] = "done"
       \/ /\ run.name = "bold_fsLR_resampling_wf"
          /\ <<"goodvoxels_bold_mask_wf.cov_volume", 0>> \in DOMAIN run.status
          /\ run.status[<<"goodvoxels_bold_mask_wf.cov_volume", 0>>] = "running"
          /\ run.status[<<"goodvoxels_bold_mask_wf.goodvoxels_mask", 0>>] = "waiting"

RECURSIVE HintSum(_, _)
\* the sum of a declared hint ("mem_gb" or "n_procs") over dispatched units
HintSum(units, hint) ==
    IF units = {} THEN 0
    ELSE LET u == CHOOSE v \in units : TRUE
             cfg == G.nodes[u[1][1]]
         IN (IF Has(cfg, hint) THEN cfg[hint] ELSE 0) + HintSum(units \ {u}, hint)

\* how many copies of the nodes ns are running
RunningCopies(ns) ==
    Cardinality({x \in DOMAIN run.status : x[1] \in ns /\ run.status[x] = "running"})

\* C19: in every state of a run, the declared mem_gb and the declared n_procs, summed
\* over the nodes and replicas that the scheduler has dispatched and that are still
\* running, do not exceed the budgets of the run; no run_without_submitting node is
\* among them (ds_report_summary and ds_report_validation never are); the copies of
\* volume_to_surface (mem_gb * 3, omp_nthreads threads each), metric_dilate and
\* resample_to_fsLR (omp_nthreads threads each) that run together fit the budgets.
C19_DispatchedFitBudget ==
    Running =>
        /\ HintSum(RunningUnits, "mem_gb") <= run.mem_budget
        /\ HintSum(RunningUnits, "n_procs") <= run.procs_budget
        /\ \A u \in RunningUnits : ~IsInline(u[1][1])
        /\ \A x \in CopiesIn("ds_report_summary") \cup CopiesIn("ds_report_validation") :
            run.status[x] \in {"waiting", "done", "failed", "skipped"}
        /\ run.name = "bold_fsLR_resampling_wf" =>
            /\ RunningCopies({"volume_to_surface"}) * 3 * G.flags.mem_gb <= run.mem_budget
            /\ RunningCopies({"volume_to_surface", "metric_dilate", "resample_to_fsLR"})
                   * G.flags.omp_nthreads <= run.procs_budget

\* ds_report_summary has been executed inline while the dispatched nodes use up the
\* thread budget, and, in another run, one copy of volume_to_surface runs while the
\* other is eligible and does not fit the memory budget
C19_Witness ==
    /\ Running
    /\ \/ /\ run.name = "func_fit_reports_wf"
          /\ run.status[<<"ds_report_summary", 0>>] = "done"
          /\ run.status[<<"ds_report_validation", 0>>] = "waiting"
          /\ ProcsSum(RunningUnits) = run.procs_budget
       \/ /\ run.name = "bold_fsLR_resampling_wf"
          /\ G.flags.omp_nthreads = 1
          /\ run.status[<<"volume_to_surface", 1>>] = "running"
          /\ Eligible(<<"volume_to_surface", 2>>)
          /\ ~Fits("volume_to_surface")

StatusIs(st) == {x \in DOMAIN run.status : run.status[x] = st}

RECURSIVE DataDependents(_, _)
\* the instances that get, directly or through others, an output of the frontier,
\* read off the connections of the workflow
DataDependents(frontier, seen) ==
    IF frontier = {} THEN seen
    ELSE LET next == {y \in DOMAIN run.status : UpstreamOf(G, y) \cap frontier # {}} \ seen
         IN DataDependents(next, seen \cup next)

NamedIn(ns) == {x \in DOMAIN run.status : x[1] \in ns}

\* C20: at the end of a run in which exactly one instance has failed, the skipped
\* instances are exactly its transitive data-dependents and every other instance is
\* done; in init_func_fit_reports_wf a failure of t1w_wm leaves boldref_wm,
\* sdc_report, ds_sdc_report, epi_t1_report and ds_epi_t1_report skipped, and
\* ds_report_summary, ds_report_validation, t1w_boldref, fmapref_boldref,
\* sdecreg_report and ds_sdcreg_report done.
C20_OnlyDependentsSkipped ==
    (Running /\ Ended /\ Cardinality(StatusIs("failed")) = 1) =>
        LET dependents == DataDependents(StatusIs("failed"), {})
        IN  /\ StatusIs("skipped") = dependents
            /\ StatusIs("done") = DOMAIN run.status \ (dependents \cup StatusIs("failed"))
            /\ (run.name = "func_fit_reports_wf" /\ StatusIs("failed") = {<<"t1w_wm", 0>>}) =>
                /\ NamedIn({"boldref_wm", "sdc_report", "ds_sdc_report", "epi_t1_report",
                            "ds_epi_t1_report"}) = StatusIs("skipped")
                /\ NamedIn({"ds_report_summary", "ds_report_validation", "t1w_boldref",
                            "fmapref_boldref", "sdecreg_report", "ds_sdcreg_report"})
                       \subseteq StatusIs("done")
                /\ G.flags.sdc_correction => Cardinality(StatusIs("skipped")) = 5
                /\ G.flags.sdc_correction =>
                       Cardinality(StatusIs("done")) = 6 + Cardinality(CopiesIn("inputnode"))

\* the run of init_func_fit_reports_wf with sdc_correction in which t1w_wm failed has
\* ended
C20_Witness ==
    /\ Running /\ run.name = "func_fit_reports_wf"
    /\ G.flags.sdc_correction
    /\ Ended
    /\ StatusIs("failed") = {<<"t1w_wm", 0>>}
    /\ run.error[<<"t1w_wm", 0>>] = "ExecutionFailure"
    /\ run.status[<<"ds_sdc_report", 0>>] = "skipped"
    /\ run.status[<<"ds_sdcreg_report", 0>>] = "done"

RECURSIVE ValueIn(_, _)
RECURSIVE ValueOut(_, _)
\* the value that the workflow and the lists handed to it prescribe at input port
\* q of instance x, whatever has run so far
ValueIn(x, q) ==
    LET es == Incoming(G.connections, x[1], q)
    IN  IF es # {}
        THEN LET e == CHOOSE c \in es : TRUE
                 fs == Feeders(G, e, x[2])
             IN  IF Has(G.nodes[e[1]], "iterables")
                 THEN Scalar(Literal(IterableOf(G, e[1])[x[2]]))
                 ELSE IF Has(G.nodes[x[1]], "joinsource") /\ \E u \in fs : u[2] # 0
                 THEN List([j \in 1..Cardinality(fs) |-> ValueOut(<<e[1], j>>, e[2]).items[1]])
                 ELSE ValueOut(CHOOSE f \in fs : TRUE, e[2])
        ELSE IF q \in IterFields(x[1]) /\ Has(G.nodes[x[1]], q)
        THEN List([k \in 1..Len(G.nodes[x[1]][q]) |-> <<"", 0, q, k>>])
        ELSE IF Has(G.nodes[x[1]], q) THEN Scalar(<<"", 0, q, 0>>)
        ELSE IF q \in DOMAIN run.lens
        THEN List([k \in 1..run.lens[q] |-> <<x[1], x[2], q, k>>])
        ELSE Scalar(<<x[1], x[2], q, 0>>)

\* the value it prescribes at output port p: a map node has one item per index of
\* its first iterfield
ValueOut(x, p) ==
    IF G.nodes[x[1]].interface = "IdentityInterface" THEN ValueIn(x, p)
    ELSE IF G.nodes[x[1]].kind = "MapNode"
    THEN List([r \in 1..Len(ValueIn(x, G.nodes[x[1]].iterfield[1]).items) |->
                  <<x[1], x[2], p, r>>])
    ELSE Scalar(<<x[1], x[2], p, 0>>)

\* the map node instances whose iterfields are prescribed different lengths
Mismatched ==
    {x \in DOMAIN run.replicas :
        Cardinality({Len(ValueIn(x, f).items) : f \in IterFields(x[1])}) > 1}

RECURSIVE Ancestors(_, _)
\* the instances from which a path of connections leads to an instance of the frontier
Ancestors(frontier, seen) ==
    IF frontier = {} THEN seen
    ELSE LET next == UNION {run.up[y] : y \in frontier} \ seen
         IN Ancestors(next, seen \cup next)

\* the instances named as the producer of an item of the value v
Producers(v) == {<<v.items[k][1], v.items[k][2]>> : k \in DOMAIN v.items}

ConnectedInputs(n) == {c[4] : c \in {e \in G.connections : e[3] = n}}

ConnectedOutputs(n) == {c[2] : c \in {e \in G.connections : e[1] = n}}

\* what instance x has on its connected input ports are literals, what was handed
\* to it, and outputs of instances from which a path of connections leads to it
ReadsUpstreamOnly(x) ==
    LET upstream == Ancestors({x}, {}) \cup {x, <<"", 0>>}
    IN  \A q \in ConnectedInputs(x[1]) : Producers(In(x, q)) \subseteq upstream

RawSourcesBuilders ==
    {"ds_boldref_wf", "ds_registration_wf", "ds_hmc_wf", "ds_bold_native_wf", "ds_volumes_wf"}

\* the derivatives sinks of workflow W
SinksOf(W) == {n \in DOMAIN W.nodes : W.nodes[n].interface = "DerivativesDataSink"}

\* the sinks of W whose RawSources input is fed from raw_sources.out
RawSourcesSinks(W) ==
    {n \in SinksOf(W) : <<"raw_sources", "out", n, "RawSources">> \in W.connections}

\* C22: in every workflow built by init_ds_boldref_wf, init_ds_registration_wf,
\* init_ds_hmc_wf, init_ds_bold_native_wf or init_ds_volumes_wf, for every flag
\* combination, raw_sources gets inputnode.source_files as in_files and its output
\* out is connected to the RawSources input of at least one derivatives sink.
C22_AsStated ==
    \A name \in RawSourcesBuilders \cap DOMAIN built :
        /\ Incoming(built[name].connections, "raw_sources", "in_files")
               = {<<"inputnode", "source_files", "raw_sources", "in_files">>}
        /\ RawSourcesSinks(built[name]) # {}

\* C23: in every workflow built by init_ds_bold_native_wf, whatever multiecho,
\* bold_output and echo_output, ds_bold_mask is present and gets inputnode.bold_mask as
\* in_file, inputnode.source_files as source_file and raw_sources.out as RawSources;
\* ds_bold is present iff bold_output, ds_t2star_bold iff bold_output and multiecho,
\* ds_bold_echos iff echo_output; so the mask sink is there whenever another sink is.
C23_MaskSinkAlwaysPresent ==
    "ds_bold_native_wf" \in DOMAIN built =>
        LET W == built["ds_bold_native_wf"]
            present == DOMAIN W.nodes
        IN  /\ "ds_bold_mask" \in SinksOf(W)
            /\ Incoming(W.connections, "ds_bold_mask", "in_file")
                   = {<<"inputnode", "bold_mask", "ds_bold_mask", "in_file">>}
            /\ Incoming(W.connections, "ds_bold_mask", "source_file")
                   = {<<"inputnode", "source_files", "ds_bold_mask", "source_file">>}
            /\ Incoming(W.connections, "ds_bold_mask", "RawSources")
                   = {<<"raw_sources", "out", "ds_bold_mask", "RawSources">>}
            /\ "ds_bold" \in present <=> W.flags.bold_output
            /\ "ds_t2star_bold" \in present <=> (W.flags.bold_output /\ W.flags.multiecho)
            /\ "ds_bold_echos" \in present <=> W.flags.echo_output
            /\ SinksOf(W) \subseteq {"ds_bold_mask", "ds_bold", "ds_t2star_bold", "ds_bold_echos"}
            /\ SinksOf(W) # {} => "ds_bold_mask" \in SinksOf(W)

\* init_ds_bold_native_wf has been called for a multi-echo run with echo_output and
\* without bold_output: the mask sink and the per-echo sink are the only sinks
C23_Witness ==
    /\ "ds_bold_native_wf" \in DOMAIN built
    /\ built["ds_bold_native_wf"].flags.multiecho
    /\ ~built["ds_bold_native_wf"].flags.bold_output
    /\ built["ds_bold_native_wf"].flags.echo_output
    /\ SinksOf(built["ds_bold_native_wf"]) = {"ds_bold_mask", "ds_bold_echos"}

\* the connections of workflow W that touch node n
Touching(W, n) == {c \in W.connections : c[1] = n \/ c[3] = n}

\* C24: in every workflow built by init_bold_surf_wf, update_metadata.in_file has
\* exactly one source.  With medial_surface_nan it is medial_nans.out_file,
\* medial_nans.in_file is sampler.out_file, and sampler feeds update_metadata over no
\* connection; without it the source is sampler.out_file, and medial_nans, which no
\* connection mentions, is not a node of the workflow.
C24_OneSourceForUpdateMetadata ==
    "bold_surf_wf" \in DOMAIN built =>
        LET W == built["bold_surf_wf"]
            source == Incoming(W.connections, "update_metadata", "in_file")
            direct == {c \in W.connections : c[1] = "sampler" /\ c[3] = "update_metadata"}
        IN  /\ Cardinality(source) = 1
            /\ W.flags.medial_surface_nan =>
                /\ source = {<<"medial_nans", "out_file", "update_metadata", "in_file">>}
                /\ Incoming(W.connections, "medial_nans", "in_file")
                       = {<<"sampler", "out_file", "medial_nans", "in_file">>}
                /\ direct = {}
                /\ "medial_nans" \in DOMAIN W.nodes
            /\ ~W.flags.medial_surface_nan =>
                /\ source = {<<"sampler", "out_file", "update_metadata", "in_file">>}
                /\ direct = source
                /\ Touching(W, "medial_nans") = {}
                /\ "medial_nans" \notin DOMAIN W.nodes

\* init_bold_surf_wf has been called without medial_surface_nan for two surface
\* spaces: update_metadata is fed by sampler
C24_Witness ==
    /\ "bold_surf_wf" \in DOMAIN built
    /\ ~built["bold_surf_wf"].flags.medial_surface_nan
    /\ Len(built["bold_surf_wf"].flags.surface_spaces) = 2
    /\ <<"sampler", "out_file", "update_metadata", "in_file">>
           \in built["bold_surf_wf"].connections

\* the nodes of workflow W that run interface i
NodesRunning(W, i) == {n \in DOMAIN W.nodes : W.nodes[n].interface = i}

\* the (resampler, datasink) pairs the builder is to make
ResamplerOf(multiecho) ==
    {<<"resample_ref", "ds_ref">>, <<"resample_mask", "ds_mask">>}
    \cup (IF multiecho THEN {<<"resample_t2star", "ds_t2star_std">>} ELSE {})

\* C25: in every workflow built by init_ds_volumes_wf, with or without multiecho,
\* there are as many resamplers as datasinks other than ds_bold; the connections out
\* of the resamplers are exactly output_image -> in_file of resample_ref -> ds_ref,
\* resample_mask -> ds_mask and, with multiecho, resample_t2star -> ds_t2star_std, so
\* that each of these datasinks has its in_file from its resampler alone and no
\* resampler is left unconsumed; every resampler gets inputnode.ref_file as
\* reference_image and boldref2target.out as transforms, and boldref2target gets
\* inputnode.boldref2anat_xfm as in1 and inputnode.anat2std_xfm as in2.
C25_ResamplersPairedWithDatasinks ==
    "ds_volumes_wf" \in DOMAIN built =>
        LET W == built["ds_volumes_wf"]
            pairs == ResamplerOf(W.flags.multiecho)
            appliers == NodesRunning(W, "ApplyTransforms")
            sinks == SinksOf(W) \ {"ds_bold"}
        IN  /\ Len(resamplers(W.flags.multiecho)) = Len(datasinks(W.flags.multiecho))
            /\ appliers = {p[1] : p \in pairs}
            /\ sinks = {p[2] : p \in pairs}
            /\ Cardinality(appliers) = Cardinality(sinks)
            /\ {c \in W.connections : c[1] \in appliers}
                   = {<<p[1], "output_image", p[2], "in_file">> : p \in pairs}
            /\ \A p \in pairs :
                /\ Incoming(W.connections, p[2], "in_file")
                       = {<<p[1], "output_image", p[2], "in_file">>}
                /\ Incoming(W.connections, p[1], "reference_image")
                       = {<<"inputnode", "ref_file", p[1], "reference_image">>}
                /\ Incoming(W.connections, p[1], "transforms")
                       = {<<"boldref2target", "out", p[1], "transforms">>}
            /\ {c \in W.connections : c[3] = "boldref2target"}
                   = {<<"inputnode", "boldref2anat_xfm", "boldref2target", "in1">>,
                      <<"inputnode", "anat2std_xfm", "boldref2target", "in2">>}
            /\ W.nodes["boldref2target"].interface = "Merge"
            /\ W.nodes["boldref2target"].numinputs = 2

\* init_ds_volumes_wf has been called with multiecho: the third pair is there
C25_Witness ==
    /\ "ds_volumes_wf" \in DOMAIN built
    /\ built["ds_volumes_wf"].flags.multiecho
    /\ <<"resample_t2star", "output_image", "ds_t2star_std", "in_file">>
           \in built["ds_volumes_wf"].connections
    /\ Len(resamplers(TRUE)) = 3

RECURSIVE Trace(_)
\* the items through which item t of a map node's output came, back to sampler: t,
\* then what the replica that produced it had as in_file, and so on
Trace(t) ==
    IF t[1] = "sampler" \/ t[1] = "" THEN <<t>>
    ELSE <<t>> \o Trace(ReplicaIn(<<t[1], t[2]>>, t[4], "in_file").items[1])

\* the map nodes between sampler and the sink, from the sink's side
SurfChain == IF G.flags.medial_surface_nan
             THEN <<"update_metadata", "medial_nans", "sampler">>
             ELSE <<"update_metadata", "sampler">>

\* the hemisphere a replica of sampler samples, and the one a replica of
\* ds_bold_surfs writes
SampledHemi(r) == G.nodes["sampler"].hemi[r]

WrittenHemi(x, r) == G.nodes["ds_bold_surfs"].hemi[ReplicaIn(x, r, "hemi").items[1][4]]

\* C26: in a run of init_bold_surf_wf, for every surface space and either value of
\* medial_surface_nan, replica r of a copy of ds_bold_surfs gets as in_file the output
\* of replica r of update_metadata, which came from replica r of medial_nans (when
\* present) and from replica r of sampler, all of the same copy; so the file sampled
\* with hemi lh is written with hemi L and the one sampled with rh with hemi R,
\* whatever the order in which the replicas completed.
C26_HemispheresStayPaired ==
    (Running /\ run.name = "bold_surf_wf") =>
        \A x \in CopiesIn("ds_bold_surfs") :
            run.status[x] = "done" =>
                /\ DOMAIN run.replicas[x] = 1..2
                /\ \A r \in DOMAIN run.replicas[x] :
                    LET path == Trace(ReplicaIn(x, r, "in_file").items[1])
                    IN  /\ [k \in DOMAIN path |-> path[k][1]] = SurfChain
                        /\ \A k \in DOMAIN path :
                            /\ path[k][2] = x[2]
                            /\ path[k][4] = r
                            /\ run.replicas[<<path[k][1], x[2]>>][r] = "done"
                        /\ <<SampledHemi(path[Len(path)][4]), WrittenHemi(x, r)>>
                               \in {<<"lh", "L">>, <<"rh", "R">>}

\* with medial_nans, one copy of ds_bold_surfs has written both hemispheres while in
\* the other copy the rh replica of medial_nans has completed before the lh replica
C26_Witness ==
    /\ Running /\ run.name = "bold_surf_wf"
    /\ G.flags.medial_surface_nan
    /\ Len(G.flags.surface_spaces) = 2
    /\ \E i, j \in 1..2 :
        /\ i # j
        /\ run.status[<<"ds_bold_surfs", i>>] = "done"
        /\ run.replicas[<<"medial_nans", j>>] = <<"running", "done">>

(***************************************************************************)
(* Further claims about prepare_timing_parameters                          *)
(***************************************************************************)
\* C27: a call of prepare_timing_parameters leaves the mapping handed to it as it
\* was: the same keys with the same values, SliceTiming still there in its original
\* order, DelayTime and AcquisitionDuration as handed in.
C27_ArgumentUnchanged ==
    [][/\ metadata' = metadata
       /\ DOMAIN metadata' = DOMAIN metadata
       /\ Has(metadata, "SliceTiming") =>
              Has(metadata', "SliceTiming") /\ metadata'["SliceTiming"] = InSliceTiming
       /\ \A key \in {"DelayTime", "AcquisitionDuration"} \cap DOMAIN metadata :
              metadata'[key] = metadata[key]]_vars

\* a call has returned a DelayTime it derived and no SliceTiming, and the mapping
\* handed in still has its own DelayTime and its unsorted SliceTiming
C27_Witness ==
    /\ Len(returns) >= 1
    /\ Returned(1)
    /\ Has(metadata, "DelayTime")
    /\ Has(returns[1].value, "DelayTime")
    /\ returns[1].value["DelayTime"] # metadata["DelayTime"]
    /\ ~Has(returns[1].value, "SliceTiming")
    /\ Len(InSliceTiming) >= 2
    /\ InSliceTiming # sorted(InSliceTiming)

\* C28: when the input has both RepetitionTime and VolumeTiming, the returned
\* AcquisitionDuration is the input's, present exactly when the input has one,
\* whatever SliceTiming is and however its span compares with RepetitionTime; and no
\* call changes both DelayTime and AcquisitionDuration.
C28_NoDurationWithRepetitionTime ==
    \A i \in DOMAIN returns :
        /\ Returned(i)
        /\ (Has(metadata, "RepetitionTime") /\ Has(metadata, "VolumeTiming")) =>
               PassedThrough(returns[i].value, "AcquisitionDuration")
        /\ \/ PassedThrough(returns[i].value, "AcquisitionDuration")
           \/ PassedThrough(returns[i].value, "DelayTime")

\* a call with RepetitionTime, VolumeTiming and a SliceTiming that spans less than the
\* repetition time has derived DelayTime and returned no AcquisitionDuration
C28_Witness ==
    /\ Len(returns) >= 1
    /\ Returned(1)
    /\ Has(metadata, "RepetitionTime")
    /\ Has(metadata, "VolumeTiming")
    /\ ~Has(metadata, "AcquisitionDuration")
    /\ ~Has(metadata, "DelayTime")
    /\ Len(InSliceTiming) >= 2
    /\ Has(returns[1].value, "DelayTime")
    /\ ~Has(returns[1].value, "AcquisitionDuration")

\* the budgets of the run cover the declared hints of every single node
BudgetCoversEveryNode ==
    /\ Running
    /\ \A n \in DOMAIN G.nodes :
        MemOf(n) <= run.mem_budget /\ ProcsOf(n) <= run.procs_budget

\* every instance is done, failed or skipped, and every replica of a map node is done
Terminated ==
    /\ Ended
    /\ \A x \in DOMAIN run.replicas :
        \A r \in DOMAIN run.replicas[x] : run.replicas[x][r] = "done"

\* in this step no instance and no replica goes back: what has ended stays as it is,
\* what runs does not wait again, and a map node keeps its replicas
NoRetry ==
    /\ \A x \in DOMAIN run.status :
        /\ run.status[x] \in {"done", "failed", "skipped"} => run'.status[x] = run.status[x]
        /\ run.status[x] = "running" => run'.status[x] # "waiting"
        /\ run'.status[x] \in {"waiting", "running", "done", "failed", "skipped"}
    /\ \A x \in DOMAIN run.replicas :
        run.replicas[x] # <<>> =>
            /\ DOMAIN run'.replicas[x] = DOMAIN run.replicas[x]
            /\ \A r \in DOMAIN run.replicas[x] :
                /\ run.replicas[x][r] = "done" => run'.replicas[x][r] = "done"
                /\ run.replicas[x][r] = "running" => run'.replicas[x][r] # "waiting"

====
